---- MODULE Spec2Model ----
(***************************************************************************)
(* Stock screener: the indicator engine (TechnicalAnalysisService) and the *)
(* signal detector (SignalDetectionService) as a state machine.            *)
(*                                                                         *)
(* Numbers.  A cell of a frame is an integer, or NaN (pandas' "no value"). *)
(* A rolling mean over N integers is a multiple of 1/N, so a column holds  *)
(* its values as numerators over the column's fixed denominator Den(col):  *)
(* SMA_20 and Volume_MA_20 over 20, SMA_50 over 50, ATR over 14, Pivot     *)
(* over 3, Price_Change_Pct over the previous close, every other column   *)
(* over 1.  Price_Volatility is a standard deviation, the square root of a *)
(* multiple of 1/380: its cell holds the numerator of its square, and the  *)
(* one comparison made on it is made on squares.  Everything the detector computes from cells (thresholds,       *)
(* ratios, strengths) is an exact fraction [num, den]; the floating-point  *)
(* rounding of the original is not modelled.                               *)
(***************************************************************************)
EXTENDS Integers, Sequences, FiniteSets, TLC

VARIABLES config, data, frame, signals, quality, again, pc,
          gateway, symbols, results, top

\* the state of a batch screening
screening == <<gateway, symbols, results, top>>

vars == <<config, data, frame, signals, quality, again, pc, screening>>

-----------------------------------------------------------------------------
(* Program constants *)

\* len(data) < 21: the detector's minimum history
MIN_BARS == 21
\* lookback_days = min(5, len(data))
LOOKBACK == 5
\* rolling(window=20)
WINDOW_20 == 20
\* rolling(window=50)
WINDOW_50 == 50
\* _calculate_atr(self, data, window=14)
ATR_WINDOW == 14

(* Bounds of the model *)

\* the frames handed to the detector have at most MaxBars bars
MaxBars == 22
\* the price series handed to the indicator engine have at most MaxSeries bars
MaxSeries == 25
\* a series too short for every rolling window has ShortSeries bars
ShortSeries == 3

-----------------------------------------------------------------------------
(* Exact fractions, with NaN *)

\* the "no value" of a cell, apart from every value a cell of the model takes
NaN == -999999

Abs(n) == IF n < 0 THEN 0 - n ELSE n

Min(a, b) == IF a < b THEN a ELSE b

RECURSIVE GCD(_, _)
GCD(a, b) == IF b = 0 THEN a ELSE GCD(b, a % b)

\* n/d in lowest terms with a positive denominator; x/0 is inf (num = +-1) or
\* NaN (num = 0), as numpy's float division gives
Frac(n, d) ==
    IF d = 0
    THEN [num |-> IF n > 0 THEN 1 ELSE IF n < 0 THEN 0 - 1 ELSE 0, den |-> 0]
    ELSE LET g == GCD(Abs(n), Abs(d))
             s == IF d < 0 THEN 0 - 1 ELSE 1
         IN  [num |-> (s * n) \div g, den |-> (s * d) \div g]

FNaN == [num |-> 0, den |-> 0]
Zero == [num |-> 0, den |-> 1]
One == [num |-> 1, den |-> 1]

FIsNaN(a) == a.den = 0 /\ a.num = 0

\* comparisons: any comparison with NaN is false
FGt(a, b) == ~FIsNaN(a) /\ ~FIsNaN(b) /\ a.num * b.den > b.num * a.den
FGe(a, b) == ~FIsNaN(a) /\ ~FIsNaN(b) /\ a.num * b.den >= b.num * a.den
FLe(a, b) == ~FIsNaN(a) /\ ~FIsNaN(b) /\ a.num * b.den <= b.num * a.den
FEq(a, b) == ~FIsNaN(a) /\ ~FIsNaN(b) /\ a.num * b.den = b.num * a.den
FLt(a, b) == ~FIsNaN(a) /\ ~FIsNaN(b) /\ a.num * b.den < b.num * a.den

\* arithmetic: NaN propagates
FAdd(a, b) ==
    IF FIsNaN(a) \/ FIsNaN(b) THEN FNaN
    ELSE Frac(a.num * b.den + b.num * a.den, a.den * b.den)
FSub(a, b) ==
    IF FIsNaN(a) \/ FIsNaN(b) THEN FNaN
    ELSE Frac(a.num * b.den - b.num * a.den, a.den * b.den)
FMul(a, b) ==
    IF FIsNaN(a) \/ FIsNaN(b) THEN FNaN
    ELSE Frac(a.num * b.num, a.den * b.den)
FDiv(a, b) ==
    IF FIsNaN(a) \/ FIsNaN(b) THEN FNaN
    ELSE Frac(a.num * b.den, a.den * b.num)

\* Python's max(a, b): b only when b > a (so max(x, NaN) is x)
PyMax(a, b) == IF FGt(b, a) THEN b ELSE a

-----------------------------------------------------------------------------
(* Frames *)

\* the denominator of a column's cells
Den(col) ==
    IF col \in {"SMA_20", "Volume_MA_20"} THEN WINDOW_20
    ELSE IF col = "SMA_50" THEN WINDOW_50
    ELSE IF col = "ATR" THEN ATR_WINDOW
    ELSE IF col = "Pivot" THEN 3
    ELSE IF col = "Price_Volatility" THEN WINDOW_20 * (WINDOW_20 - 1)
    ELSE 1

\* the value of a cell as a fraction
Val(v, col) == IF v = NaN THEN FNaN ELSE Frac(v, Den(col))

\* len(data)
len(d) == Len(d.rows)

\* data.iloc[-i]
iloc(d, i) == d.rows[Len(d.rows) + 1 - i]

\* row[col] raises KeyError when the frame has no such column
Has(d, col) == col \in d.columns

\* data.iloc[-i][col]
Cell(d, i, col) == Val(iloc(d, i)[col], col)

\* pd.DataFrame()
EmptyFrame == [columns |-> {}, rows |-> <<>>]

-----------------------------------------------------------------------------
(* Exceptions: a call returns a value (Ok) or raises (Raise) *)

Raise == [exc |-> TRUE]
Ok(v) == [exc |-> FALSE, val |-> v]

\* try: <body>  except Exception: return <fallback>
Catch(body, fallback) == IF body.exc THEN Ok(fallback) ELSE body

-----------------------------------------------------------------------------
(* services/technical_analysis_service.py                                  *)
(* Rows are indexed 1..len(data); row k is pandas' position k - 1.         *)

Max(a, b) == IF a > b THEN a ELSE b

\* Series.rolling(window).<reduction>: the window of rows ending at row k, no
\* value unless the window holds `window` defined observations
WindowDefined(d, col, window, k) ==
    /\ k >= window
    /\ \A j \in (k - window + 1)..k : d.rows[j][col] # NaN

RECURSIVE SumRows(_, _, _, _)
SumRows(d, col, lo, hi) ==
    IF lo > hi THEN 0 ELSE d.rows[hi][col] + SumRows(d, col, lo, hi - 1)

RECURSIVE MaxRows(_, _, _, _)
MaxRows(d, col, lo, hi) ==
    IF lo = hi THEN d.rows[hi][col]
    ELSE Max(d.rows[hi][col], MaxRows(d, col, lo, hi - 1))

RECURSIVE MinRows(_, _, _, _)
MinRows(d, col, lo, hi) ==
    IF lo = hi THEN d.rows[hi][col]
    ELSE Min(d.rows[hi][col], MinRows(d, col, lo, hi - 1))

\* mutant: partial windows are computed (min_periods=1)
rolling_mean_partial(d, col, window, k) ==
    IF \A j \in Max(1, k - window + 1)..k : d.rows[j][col] # NaN
    THEN SumRows(d, col, Max(1, k - window + 1), k) ELSE NaN

\* data[col].rolling(window).mean(), as the numerator over `window`
rolling_mean(d, col, window, k) ==
    IF WindowDefined(d, col, window, k)
    THEN SumRows(d, col, k - window + 1, k) ELSE NaN

\* mutant: the window ends at the previous row (shift(1).rolling(window).max())
rolling_max_prior(d, col, window, k) ==
    IF k >= 2 /\ WindowDefined(d, col, window, k - 1)
    THEN MaxRows(d, col, k - window, k - 1) ELSE NaN

\* data[col].rolling(window).max()
rolling_max(d, col, window, k) ==
    IF WindowDefined(d, col, window, k)
    THEN MaxRows(d, col, k - window + 1, k) ELSE NaN

\* data[col].rolling(window).min()
rolling_min(d, col, window, k) ==
    IF WindowDefined(d, col, window, k)
    THEN MinRows(d, col, k - window + 1, k) ELSE NaN

RECURSIVE SumSquares(_, _, _, _)
SumSquares(d, col, lo, hi) ==
    IF lo > hi THEN 0
    ELSE d.rows[hi][col] * d.rows[hi][col] + SumSquares(d, col, lo, hi - 1)

\* data[col].rolling(window).std(), the sample standard deviation (ddof=1):
\* the numerator of its square over window * (window - 1),
\* window * sum(x^2) - sum(x)^2
rolling_std(d, col, window, k) ==
    IF WindowDefined(d, col, window, k)
    THEN LET sum == SumRows(d, col, k - window + 1, k)
         IN  window * SumSquares(d, col, k - window + 1, k) - sum * sum
    ELSE NaN

\* mutant: a day that closes unchanged counts as a down day (else: subtract)
RECURSIVE calculate_obv_flat_is_down(_, _)
calculate_obv_flat_is_down(d, k) ==
    IF k = 1 THEN 0
    ELSE LET prev == calculate_obv_flat_is_down(d, k - 1)
             close == d.rows[k]["Close"]
             close_prev == d.rows[k - 1]["Close"]
             volume == d.rows[k]["Volume"]
         IN  IF prev = NaN \/ volume = NaN THEN NaN
             ELSE IF close # NaN /\ close_prev # NaN /\ close > close_prev
                  THEN prev + volume
                  ELSE prev - volume

\* _calculate_obv: obv[0] = 0, then the running sum of the signed volumes
RECURSIVE _calculate_obv(_, _)
_calculate_obv(d, k) ==
    IF k = 1 THEN 0
    ELSE LET prev == _calculate_obv(d, k - 1)
             close == d.rows[k]["Close"]
             close_prev == d.rows[k - 1]["Close"]
             volume == d.rows[k]["Volume"]
         IN  IF close = NaN \/ close_prev = NaN \/ close = close_prev THEN prev
             ELSE IF prev = NaN \/ volume = NaN THEN NaN
             ELSE IF close > close_prev THEN prev + volume
             ELSE prev - volume

\* np.maximum(high_low, np.maximum(high_close_prev, low_close_prev)): the first
\* row has no previous close (shift(1)), and np.maximum propagates NaN
true_range(d, k) ==
    LET high == d.rows[k]["High"]
        low == d.rows[k]["Low"]
    IN  IF k = 1 THEN NaN
        ELSE LET close_prev == d.rows[k - 1]["Close"]
             IN  IF high = NaN \/ low = NaN \/ close_prev = NaN THEN NaN
                 ELSE Max(high - low, Max(Abs(high - close_prev), Abs(low - close_prev)))

RECURSIVE SumTrueRange(_, _, _)
SumTrueRange(d, lo, hi) ==
    IF lo > hi THEN 0 ELSE true_range(d, hi) + SumTrueRange(d, lo, hi - 1)

\* _calculate_atr: true_range.rolling(14).mean(), as the numerator over 14;
\* zeros when the computation raises
_calculate_atr(d, k) ==
    IF ~Has(d, "High") \/ ~Has(d, "Low") \/ ~Has(d, "Close") THEN 0
    ELSE IF /\ k >= ATR_WINDOW
            /\ \A j \in (k - ATR_WINDOW + 1)..k : true_range(d, j) # NaN
         THEN SumTrueRange(d, k - ATR_WINDOW + 1, k)
         ELSE NaN

\* mutant: the change to the next row (shift(-1)), a look-ahead
pct_change_forward(d, col, k) ==
    IF k = len(d) \/ d.rows[k][col] = NaN \/ d.rows[k + 1][col] = NaN THEN NaN
    ELSE d.rows[k + 1][col] - d.rows[k][col]

\* data["Close"].pct_change(): no value on the first row; the cell holds the
\* numerator close[t] - close[t-1] of the change, over close[t-1]
pct_change(d, col, k) ==
    IF k = 1 \/ d.rows[k][col] = NaN \/ d.rows[k - 1][col] = NaN THEN NaN
    ELSE d.rows[k][col] - d.rows[k - 1][col]

\* the columns calculate_all_indicators adds that the frame carries.  EMA_12,
\* EMA_26, Volume_ROC, Price_vs_SMA20 and Price_vs_SMA50 are not carried.
IndicatorColumns ==
    {"SMA_20", "SMA_50", "Volume_MA_20", "OBV", "Price_Volatility", "ATR", "Resistance",
     "Support", "Pivot", "Price_Change_Pct"}

\* the cell of an added column at row k
Indicator(d, col, k) ==
    CASE col = "SMA_20" -> rolling_mean(d, "Close", WINDOW_20, k)
      [] col = "SMA_50" -> rolling_mean(d, "Close", WINDOW_50, k)
      [] col = "Volume_MA_20" -> rolling_mean(d, "Volume", WINDOW_20, k)
      [] col = "OBV" -> _calculate_obv(d, k)
      [] col = "Price_Volatility" -> rolling_std(d, "Close", WINDOW_20, k)
      [] col = "ATR" -> _calculate_atr(d, k)
      [] col = "Resistance" -> rolling_max(d, "High", WINDOW_20, k)
      [] col = "Support" -> rolling_min(d, "Low", WINDOW_20, k)
      [] col = "Price_Change_Pct" -> pct_change(d, "Close", k)
      [] col = "Pivot" ->
            LET r == d.rows[k]
            IN  IF r["High"] = NaN \/ r["Low"] = NaN \/ r["Close"] = NaN THEN NaN
                ELSE r["High"] + r["Low"] + r["Close"]

\* data[col] = ... for the given indicator columns: the frame with them added
AddColumns(d, cols) ==
    [columns |-> d.columns \cup cols,
     rows |-> [k \in 1..len(d) |->
                 [col \in d.columns \cup cols |->
                     IF col \in cols THEN Indicator(d, col, k) ELSE d.rows[k][col]]]]

\* calculate_all_indicators: a copy of the data with the indicator columns
\* added; a missing Close, Volume, High or Low raises (and is re-raised)
calculate_all_indicators(d) ==
    IF \E col \in {"Close", "Volume", "High", "Low"} : ~Has(d, col) THEN Raise
    ELSE Ok(AddColumns(d, IndicatorColumns))

\* mutant: the helpers assign their columns to the caller's frame (no copy),
\* up to the helper that raises
caller_data_modified_in_place(d) ==
    IF ~Has(d, "Close") THEN d
    ELSE IF ~Has(d, "Volume") THEN AddColumns(d, {"SMA_20", "SMA_50"})
    ELSE IF ~Has(d, "High")
         THEN AddColumns(d, {"SMA_20", "SMA_50", "Volume_MA_20", "OBV", "Price_Volatility",
                             "ATR"})
    ELSE IF ~Has(d, "Low")
         THEN AddColumns(d, {"SMA_20", "SMA_50", "Volume_MA_20", "OBV", "Price_Volatility",
                             "ATR", "Resistance"})
    ELSE AddColumns(d, IndicatorColumns)

\* the caller's frame after calculate_all_indicators(data): the helpers assign
\* their columns to enhanced_data = data.copy(), so it is as it was
caller_data(d) == d

-----------------------------------------------------------------------------
(* models/signals.py *)

RESISTANCE_BREAKOUT == "Resistance Breakout"
MA_BREAKOUT == "MA Breakout"
None == "None"

BreakoutSignal_no_signal == [signal |-> FALSE, signal_type |-> None, strength |-> Zero]
BreakoutSignal_resistance_breakout(strength) ==
    [signal |-> TRUE, signal_type |-> RESISTANCE_BREAKOUT, strength |-> strength]
BreakoutSignal_ma_breakout(strength) ==
    [signal |-> TRUE, signal_type |-> MA_BREAKOUT, strength |-> strength]

VolumeSignal_no_signal(volume_ratio) == [signal |-> FALSE, volume_ratio |-> volume_ratio]
VolumeSignal_volume_spike(volume_ratio) == [signal |-> TRUE, volume_ratio |-> volume_ratio]

CombinedSignals(breakout, volume) ==
    [kind |-> "CombinedSignals", breakout |-> breakout, volume |-> volume]

\* mutant: the count stops at the first active signal
signal_count_first_only(c) ==
    IF c.breakout.signal THEN 1 ELSE IF c.volume.signal THEN 1 ELSE 0

\* CombinedSignals.has_any_signal
has_any_signal(c) == c.breakout.signal \/ c.volume.signal

\* CombinedSignals.signal_count
signal_count(c) ==
    LET count0 == 0
        count1 == IF c.breakout.signal THEN count0 + 1 ELSE count0
        count2 == IF c.volume.signal THEN count1 + 1 ELSE count1
    IN  count2

-----------------------------------------------------------------------------
(* services/signal_detection_service.py                                    *)
(* self is the detector: [volume_spike_threshold, breakout_threshold],     *)
(* both fractions.                                                         *)

\* (False, 0.0)
NoBreakout == [hit |-> FALSE, strength |-> Zero]

\* latest["Resistance"] * (1 - self.breakout_threshold), on data.iloc[-i]
resistance_threshold(self, d, i) ==
    FMul(Cell(d, i, "Resistance"), FSub(One, self.breakout_threshold))

\* for i in range(1, lookback_days + 1): volume > Volume_MA_20 * 1.2, break
RECURSIVE volume_confirmation(_, _, _)
volume_confirmation(d, i, lookback_days) ==
    IF i > lookback_days THEN FALSE
    ELSE IF FGt(Cell(d, i, "Volume"), FMul(Cell(d, i, "Volume_MA_20"), Frac(12, 10)))
         THEN TRUE
         ELSE volume_confirmation(d, i + 1, lookback_days)

\* mutant: the previous close must be strictly below its resistance
RECURSIVE recent_breakout_strict_previous(_, _, _, _)
recent_breakout_strict_previous(self, d, i, stop) ==
    IF i >= stop THEN FALSE
    ELSE IF /\ i < len(d) - 1
            /\ FGt(Cell(d, i, "Close"), resistance_threshold(self, d, i))
            /\ FLt(Cell(d, i + 1, "Close"), Cell(d, i + 1, "Resistance"))
         THEN TRUE
         ELSE recent_breakout_strict_previous(self, d, i + 1, stop)

\* for i in range(1, min(5, len(data))): a cross between iloc[-i-1] and iloc[-i]
RECURSIVE recent_breakout(_, _, _, _)
recent_breakout(self, d, i, stop) ==
    IF i >= stop THEN FALSE
    ELSE IF /\ i < len(d) - 1
            /\ FGt(Cell(d, i, "Close"), resistance_threshold(self, d, i))
            /\ FLe(Cell(d, i + 1, "Close"), Cell(d, i + 1, "Resistance"))
         THEN TRUE
         ELSE recent_breakout(self, d, i + 1, stop)

\* mutant: the volume confirmation is not required
check_resistance_breakout_unconfirmed(self, d) ==
    IF len(d) < 2 THEN Ok(NoBreakout)
    ELSE IF ~Has(d, "Resistance") \/ ~Has(d, "Close") THEN Raise
    ELSE IF ~FGt(Cell(d, 1, "Close"), resistance_threshold(self, d, 1))
         THEN Ok(NoBreakout)
    ELSE IF recent_breakout(self, d, 1, Min(LOOKBACK, len(d)))
         THEN LET strength == FDiv(FSub(Cell(d, 1, "Close"), Cell(d, 1, "Resistance")),
                                   Cell(d, 1, "Resistance"))
              IN  Ok([hit |-> TRUE, strength |-> PyMax(Zero, strength)])
         ELSE Ok(NoBreakout)

\* mutant: the strength is returned as computed, without max(0, strength)
check_resistance_breakout_unfloored(self, d) ==
    IF len(d) < 2 THEN Ok(NoBreakout)
    ELSE IF ~Has(d, "Resistance") \/ ~Has(d, "Close") THEN Raise
    ELSE IF ~FGt(Cell(d, 1, "Close"), resistance_threshold(self, d, 1))
         THEN Ok(NoBreakout)
    ELSE IF ~Has(d, "Volume") \/ ~Has(d, "Volume_MA_20") THEN Raise
    ELSE IF /\ recent_breakout(self, d, 1, Min(LOOKBACK, len(d)))
            /\ volume_confirmation(d, 1, Min(LOOKBACK, len(d)))
         THEN Ok([hit |-> TRUE,
                  strength |-> FDiv(FSub(Cell(d, 1, "Close"), Cell(d, 1, "Resistance")),
                                    Cell(d, 1, "Resistance"))])
         ELSE Ok(NoBreakout)

\* the try block of _check_resistance_breakout_with_data
check_resistance_breakout_with_data_body(self, d) ==
    IF len(d) < 2 THEN Ok(NoBreakout)
    ELSE IF ~Has(d, "Resistance") \/ ~Has(d, "Close") THEN Raise
    ELSE IF ~FGt(Cell(d, 1, "Close"), resistance_threshold(self, d, 1))
         THEN Ok(NoBreakout)
    ELSE IF ~Has(d, "Volume") \/ ~Has(d, "Volume_MA_20") THEN Raise
    ELSE IF /\ recent_breakout(self, d, 1, Min(LOOKBACK, len(d)))
            /\ volume_confirmation(d, 1, Min(LOOKBACK, len(d)))
         THEN LET strength == FDiv(FSub(Cell(d, 1, "Close"), Cell(d, 1, "Resistance")),
                                   Cell(d, 1, "Resistance"))
              IN  Ok([hit |-> TRUE, strength |-> PyMax(Zero, strength)])
         ELSE Ok(NoBreakout)

\* mutant: the handler re-raises (as TechnicalAnalysisService's handlers do)
check_resistance_breakout_reraises(self, d) ==
    check_resistance_breakout_with_data_body(self, d)

\* mutant: the older helper _check_resistance_breakout(latest, previous) is
\* called instead, which looks at the latest two bars only
_check_resistance_breakout(self, d) ==
    Catch(IF \E c \in {"Resistance", "Close", "Volume", "Volume_MA_20"} : ~Has(d, c)
          THEN Raise
          ELSE LET price_breakout ==
                       /\ FGt(Cell(d, 1, "Close"), resistance_threshold(self, d, 1))
                       /\ FLe(Cell(d, 2, "Close"), Cell(d, 2, "Resistance"))
                   strength == FDiv(FSub(Cell(d, 1, "Close"), Cell(d, 1, "Resistance")),
                                    Cell(d, 1, "Resistance"))
               IN  IF price_breakout /\ volume_confirmation(d, 1, 1)
                   THEN Ok([hit |-> TRUE, strength |-> PyMax(Zero, strength)])
                   ELSE Ok(NoBreakout),
          NoBreakout)

_check_resistance_breakout_with_data(self, d) ==
    Catch(check_resistance_breakout_with_data_body(self, d), NoBreakout)

\* mutant: the previous close must be strictly below its SMA_20
check_ma_breakout_strict_previous(d) ==
    IF ~Has(d, "Close") \/ ~Has(d, "SMA_20") \/ ~Has(d, "SMA_50") THEN Raise
    ELSE LET price_above_sma == FGt(Cell(d, 1, "Close"), Cell(d, 1, "SMA_20"))
             previous_below_sma == FGt(Cell(d, 2, "SMA_20"), Cell(d, 2, "Close"))
             uptrend_confirmation == FGt(Cell(d, 1, "SMA_20"), Cell(d, 1, "SMA_50"))
             strength == FDiv(FSub(Cell(d, 1, "Close"), Cell(d, 1, "SMA_20")),
                              Cell(d, 1, "SMA_20"))
         IN  IF price_above_sma /\ previous_below_sma /\ uptrend_confirmation
             THEN Ok([hit |-> TRUE, strength |-> PyMax(Zero, strength)])
             ELSE Ok(NoBreakout)

\* mutant: the uptrend confirmation is not required
check_ma_breakout_no_trend(d) ==
    IF ~Has(d, "Close") \/ ~Has(d, "SMA_20") \/ ~Has(d, "SMA_50") THEN Raise
    ELSE LET price_above_sma == FGt(Cell(d, 1, "Close"), Cell(d, 1, "SMA_20"))
             previous_below_sma == FLe(Cell(d, 2, "Close"), Cell(d, 2, "SMA_20"))
             strength == FDiv(FSub(Cell(d, 1, "Close"), Cell(d, 1, "SMA_20")),
                              Cell(d, 1, "SMA_20"))
         IN  IF price_above_sma /\ previous_below_sma
             THEN Ok([hit |-> TRUE, strength |-> PyMax(Zero, strength)])
             ELSE Ok(NoBreakout)

\* the try block of _check_ma_breakout, on latest = iloc[-1], previous = iloc[-2]
check_ma_breakout_body(d) ==
    IF ~Has(d, "Close") \/ ~Has(d, "SMA_20") \/ ~Has(d, "SMA_50") THEN Raise
    ELSE LET price_above_sma == FGt(Cell(d, 1, "Close"), Cell(d, 1, "SMA_20"))
             previous_below_sma == FLe(Cell(d, 2, "Close"), Cell(d, 2, "SMA_20"))
             uptrend_confirmation == FGt(Cell(d, 1, "SMA_20"), Cell(d, 1, "SMA_50"))
             strength == FDiv(FSub(Cell(d, 1, "Close"), Cell(d, 1, "SMA_20")),
                              Cell(d, 1, "SMA_20"))
         IN  IF price_above_sma /\ previous_below_sma /\ uptrend_confirmation
             THEN Ok([hit |-> TRUE, strength |-> PyMax(Zero, strength)])
             ELSE Ok(NoBreakout)

_check_ma_breakout(d) == Catch(check_ma_breakout_body(d), NoBreakout)

\* mutant: the moving-average rule is tried before the resistance rule
detect_breakout_signals_ma_first(self, d) ==
    IF len(d) < MIN_BARS THEN Ok(BreakoutSignal_no_signal)
    ELSE LET resistance == _check_resistance_breakout_with_data(self, d)
             ma == _check_ma_breakout(d)
         IN  IF ma.exc THEN Raise
             ELSE IF ma.val.hit
                  THEN Ok(BreakoutSignal_ma_breakout(ma.val.strength))
             ELSE IF resistance.exc THEN Raise
             ELSE IF resistance.val.hit
                  THEN Ok(BreakoutSignal_resistance_breakout(resistance.val.strength))
             ELSE Ok(BreakoutSignal_no_signal)

\* the try block of detect_breakout_signals
detect_breakout_signals_body(self, d) ==
    IF len(d) < MIN_BARS THEN Ok(BreakoutSignal_no_signal)
    ELSE LET resistance == _check_resistance_breakout_with_data(self, d)
             ma == _check_ma_breakout(d)
         IN  IF resistance.exc THEN Raise
             ELSE IF resistance.val.hit
                  THEN Ok(BreakoutSignal_resistance_breakout(resistance.val.strength))
             ELSE IF ma.exc THEN Raise
             ELSE IF ma.val.hit
                  THEN Ok(BreakoutSignal_ma_breakout(ma.val.strength))
             ELSE Ok(BreakoutSignal_no_signal)

detect_breakout_signals(self, d) ==
    Catch(detect_breakout_signals_body(self, d), BreakoutSignal_no_signal)

\* volume / Volume_MA_20 of data.iloc[-i], 0 unless Volume_MA_20 > 0
volume_ratio(d, i) ==
    IF FGt(Cell(d, i, "Volume_MA_20"), Zero)
    THEN FDiv(Cell(d, i, "Volume"), Cell(d, i, "Volume_MA_20"))
    ELSE Zero

\* mutant: the spike comparison is strict (volume_ratio > threshold)
RECURSIVE volume_spike_loop_strict(_, _, _, _, _)
volume_spike_loop_strict(self, d, i, lookback_days, acc) ==
    IF i > lookback_days THEN Ok(acc)
    ELSE IF ~Has(d, "Volume_MA_20") THEN Raise
    ELSE IF FGt(Cell(d, i, "Volume_MA_20"), Zero) /\ ~Has(d, "Volume") THEN Raise
    ELSE volume_spike_loop_strict(self, d, i + 1, lookback_days,
            [max_volume_ratio |-> PyMax(acc.max_volume_ratio, volume_ratio(d, i)),
             spike_detected |-> \/ acc.spike_detected
                                \/ FGt(volume_ratio(d, i), self.volume_spike_threshold)])

\* for i in range(1, lookback_days + 1): track max_volume_ratio, spike_detected
RECURSIVE volume_spike_loop(_, _, _, _, _)
volume_spike_loop(self, d, i, lookback_days, acc) ==
    IF i > lookback_days THEN Ok(acc)
    ELSE IF ~Has(d, "Volume_MA_20") THEN Raise
    ELSE IF FGt(Cell(d, i, "Volume_MA_20"), Zero) /\ ~Has(d, "Volume") THEN Raise
    ELSE volume_spike_loop(self, d, i + 1, lookback_days,
            [max_volume_ratio |-> PyMax(acc.max_volume_ratio, volume_ratio(d, i)),
             spike_detected |-> \/ acc.spike_detected
                                \/ FGe(volume_ratio(d, i), self.volume_spike_threshold)])

\* mutant: the length guard is off by one (len(data) < 20)
detect_volume_signals_short_guard(self, d) ==
    IF len(d) < MIN_BARS - 1 THEN Ok(VolumeSignal_no_signal(Zero))
    ELSE LET loop == volume_spike_loop(self, d, 1, Min(LOOKBACK, len(d)),
                        [max_volume_ratio |-> Zero, spike_detected |-> FALSE])
         IN  IF loop.exc THEN Raise
             ELSE IF loop.val.spike_detected
                  THEN Ok(VolumeSignal_volume_spike(loop.val.max_volume_ratio))
                  ELSE Ok(VolumeSignal_no_signal(volume_ratio(d, 1)))

\* mutant: without a spike the maximum ratio is reported, not the latest one
detect_volume_signals_reports_max(self, d) ==
    IF len(d) < MIN_BARS THEN Ok(VolumeSignal_no_signal(Zero))
    ELSE LET loop == volume_spike_loop(self, d, 1, Min(LOOKBACK, len(d)),
                        [max_volume_ratio |-> Zero, spike_detected |-> FALSE])
         IN  IF loop.exc THEN Raise
             ELSE IF loop.val.spike_detected
                  THEN Ok(VolumeSignal_volume_spike(loop.val.max_volume_ratio))
                  ELSE Ok(VolumeSignal_no_signal(loop.val.max_volume_ratio))

\* the try block of detect_volume_signals
detect_volume_signals_body(self, d) ==
    IF len(d) < MIN_BARS THEN Ok(VolumeSignal_no_signal(Zero))
    ELSE LET loop == volume_spike_loop(self, d, 1, Min(LOOKBACK, len(d)),
                        [max_volume_ratio |-> Zero, spike_detected |-> FALSE])
         IN  IF loop.exc THEN Raise
             ELSE IF loop.val.spike_detected
                  THEN Ok(VolumeSignal_volume_spike(loop.val.max_volume_ratio))
                  ELSE Ok(VolumeSignal_no_signal(volume_ratio(d, 1)))

detect_volume_signals(self, d) ==
    Catch(detect_volume_signals_body(self, d), VolumeSignal_no_signal(Zero))

\* the try block of detect_all_signals
detect_all_signals_body(self, d) ==
    LET breakout_signal == detect_breakout_signals(self, d)
        volume_signal == detect_volume_signals(self, d)
    IN  IF breakout_signal.exc \/ volume_signal.exc THEN Raise
        ELSE Ok(CombinedSignals(breakout_signal.val, volume_signal.val))

\* mutant: a log line ahead of the try reads data["Close"].iloc[-1]
detect_all_signals_reads_before_try(self, d) ==
    IF len(d) = 0 \/ ~Has(d, "Close") THEN Raise
    ELSE Catch(detect_all_signals_body(self, d),
               CombinedSignals(BreakoutSignal_no_signal, VolumeSignal_no_signal(Zero)))

\* mutant: the detector remembers that it has reported, and reports a frame's
\* signals once only
detect_all_signals_reports_once(self, d) ==
    IF pc = "detected"
    THEN Ok(CombinedSignals(BreakoutSignal_no_signal, VolumeSignal_no_signal(Zero)))
    ELSE Catch(detect_all_signals_body(self, d),
               CombinedSignals(BreakoutSignal_no_signal, VolumeSignal_no_signal(Zero)))

detect_all_signals(self, d) ==
    Catch(detect_all_signals_body(self, d),
          CombinedSignals(BreakoutSignal_no_signal, VolumeSignal_no_signal(Zero)))

\* {"quality": "unknown", "confidence": 0.0}
Unknown == [quality |-> "unknown", confidence |-> Zero]

\* mutant: the second volume test is an `if`, not an `elif`
volume_factor_both(latest) ==
    LET volume == Val(latest["Volume"], "Volume")
        volume_ma == Val(latest["Volume_MA_20"], "Volume_MA_20")
    IN  (IF FGt(volume, FMul(volume_ma, Frac(15, 10))) THEN <<"strong_volume">> ELSE <<>>)
            \o (IF FGt(volume, volume_ma) THEN <<"good_volume">> ELSE <<>>)

\* volume confirmation: Volume > Volume_MA_20 * 1.5, elif Volume > Volume_MA_20
volume_factor(latest) ==
    LET volume == Val(latest["Volume"], "Volume")
        volume_ma == Val(latest["Volume_MA_20"], "Volume_MA_20")
    IN  IF FGt(volume, FMul(volume_ma, Frac(15, 10))) THEN <<"strong_volume">>
        ELSE IF FGt(volume, volume_ma) THEN <<"good_volume">>
        ELSE <<>>

\* trend confirmation: SMA_20 > SMA_50
trend_factor(latest) ==
    IF FGt(Val(latest["SMA_20"], "SMA_20"), Val(latest["SMA_50"], "SMA_50"))
    THEN <<"uptrend">> ELSE <<>>

\* volatility check: avg_price > 0 and Price_Volatility / avg_price < 0.05.
\* Price_Volatility is not read when avg_price > 0 is false.  The cell holds
\* the square of the standard deviation, which is not negative, and
\* avg_price is positive: the comparison is the one of the squares.
volatility_factor(latest) ==
    LET avg_price == Val(latest["SMA_20"], "SMA_20")
    IN  IF /\ FGt(avg_price, Zero)
           /\ FLt(FDiv(Val(latest["Price_Volatility"], "Price_Volatility"),
                       FMul(avg_price, avg_price)),
                  FMul(Frac(5, 100), Frac(5, 100)))
        THEN <<"low_volatility">> ELSE <<>>

\* signal strength: signals.breakout.signal and signals.breakout.strength > 0.03
strength_factor(s) ==
    IF s.breakout.signal /\ FGt(s.breakout.strength, Frac(3, 100))
    THEN <<"strong_breakout">> ELSE <<>>

\* mutant: an uptrend is taken off the score
increment_uptrend_penalised(factor) ==
    CASE factor = "strong_volume" -> Frac(3, 10)
      [] factor = "good_volume" -> Frac(15, 100)
      [] factor = "uptrend" -> Frac(0 - 2, 10)
      [] factor = "low_volatility" -> Frac(2, 10)
      [] factor = "strong_breakout" -> Frac(3, 10)

\* quality_score += ... of each factor
increment(factor) ==
    CASE factor = "strong_volume" -> Frac(3, 10)
      [] factor = "good_volume" -> Frac(15, 100)
      [] factor = "uptrend" -> Frac(2, 10)
      [] factor = "low_volatility" -> Frac(2, 10)
      [] factor = "strong_breakout" -> Frac(3, 10)

\* quality_score, from 0.0, after the increments of the factors appended
RECURSIVE quality_score(_)
quality_score(factors) ==
    IF factors = <<>> THEN Zero
    ELSE FAdd(quality_score(SubSeq(factors, 1, Len(factors) - 1)),
              increment(factors[Len(factors)]))

\* mutant: the levels are reached above their thresholds only
quality_level_strict(score) ==
    IF FGt(score, Frac(8, 10)) THEN "excellent"
    ELSE IF FGt(score, Frac(6, 10)) THEN "good"
    ELSE IF FGt(score, Frac(4, 10)) THEN "fair"
    ELSE "poor"

\* determine quality level
quality_level(score) ==
    IF FGe(score, Frac(8, 10)) THEN "excellent"
    ELSE IF FGe(score, Frac(6, 10)) THEN "good"
    ELSE IF FGe(score, Frac(4, 10)) THEN "fair"
    ELSE "poor"

\* the try block of analyze_signal_quality: a column that is read and
\* missing raises KeyError
analyze_signal_quality_body(s, d) ==
    IF len(d) = 0 THEN Ok(Unknown)
    ELSE LET latest == iloc(d, 1)
         IN  IF ~Has(d, "Volume") \/ ~Has(d, "Volume_MA_20") THEN Raise
             ELSE IF ~Has(d, "SMA_20") \/ ~Has(d, "SMA_50") THEN Raise
             ELSE IF FGt(Val(latest["SMA_20"], "SMA_20"), Zero) /\ ~Has(d, "Price_Volatility")
                  THEN Raise
             ELSE LET factors == volume_factor(latest) \o trend_factor(latest)
                                    \o volatility_factor(latest) \o strength_factor(s)
                      score == quality_score(factors)
                  IN  Ok([quality |-> quality_level(score), confidence |-> score,
                          factors |-> factors, score |-> score])

\* analyze_signal_quality(signals, data): unknown when the try block raises
analyze_signal_quality(s, d) == Catch(analyze_signal_quality_body(s, d), Unknown)

-----------------------------------------------------------------------------
(* models/stock.py, models/screening_result.py, services/screener_service.py *)
(* A gateway maps a symbol to its responses to the first and to the second  *)
(* fetch of the symbol: no data (None), an exception, or a price series.    *)

FetchNone == [kind |-> "none"]
FetchRaises == [kind |-> "raises"]
FetchData(d) == [kind |-> "data", data |-> d]

\* data_gateway.fetch_stock_data(symbol, period), the call-th fetch of the symbol
fetch_stock_data(gw, symbol, call) == gw[symbol][call]

\* StockData.has_sufficient_data
has_sufficient_data(d) == len(d) >= MIN_BARS

\* StockData.price_info, StockPrice.from_data on the latest row: int() of a
\* NaN volume or average volume raises ValueError
price_info(symbol, d) ==
    LET latest == iloc(d, 1)
    IN  IF \E col \in {"Close", "Price_Change_Pct", "Volume", "Volume_MA_20"} : ~Has(d, col)
        THEN Raise
        ELSE IF latest["Volume"] = NaN \/ latest["Volume_MA_20"] = NaN THEN Raise
        ELSE Ok([symbol |-> symbol, current_price |-> latest["Close"],
                 volume |-> latest["Volume"]])

\* what screen_single_stock returns for a symbol that is not screened
NoneResult == [kind |-> "None"]

\* ScreeningResult(stock_price=stock_data.price_info, signals=signals)
ScreeningResult(stock_price, s) ==
    [kind |-> "ScreeningResult", symbol |-> stock_price.symbol,
     stock_price |-> stock_price, signals |-> s]

\* steps 3 to 5 of screen_single_stock on the fetched series
screen_fetched_data(self, symbol, raw_data) ==
    CHOOSE r \in
        { IF enhanced.exc THEN Raise
          ELSE CHOOSE result \in
                 { IF s.exc \/ price.exc THEN Raise
                   ELSE Ok(ScreeningResult(price.val, s.val))
                   : s \in {detect_all_signals(self, enhanced.val)},
                     price \in {price_info(symbol, enhanced.val)} } : TRUE
          : enhanced \in {calculate_all_indicators(raw_data)} } : TRUE

\* the try block of screen_single_stock
screen_single_stock_body(self, gw, symbol) ==
    LET raw_data == fetch_stock_data(gw, symbol, 1)
    IN  IF raw_data.kind = "raises" THEN Raise
        ELSE IF raw_data.kind = "none" THEN Ok(NoneResult)
        ELSE IF ~has_sufficient_data(raw_data.data) THEN Ok(NoneResult)
        ELSE screen_fetched_data(self, symbol, raw_data.data)

\* screen_single_stock: None when the try block raises
screen_single_stock(self, gw, symbol) ==
    Catch(screen_single_stock_body(self, gw, symbol), NoneResult)

\* mutant: the loop ends at the first symbol that is not screened
RECURSIVE screen_loop_stops_at_failure(_, _, _, _, _)
screen_loop_stops_at_failure(self, gw, syms, i, acc) ==
    IF i > Len(syms) THEN acc
    ELSE CHOOSE out \in
           { IF ~r.exc /\ r.val # NoneResult
             THEN screen_loop_stops_at_failure(self, gw, syms, i + 1,
                     [acc EXCEPT !.results = Append(@, r.val), !.successful_screens = @ + 1])
             ELSE [acc EXCEPT !.failed_screens = @ + 1]
             : r \in {screen_single_stock(self, gw, syms[i])} } : TRUE

\* for symbol in symbols: the result is appended, or the failure counted (also
\* when screen_single_stock raises)
RECURSIVE screen_loop(_, _, _, _, _)
screen_loop(self, gw, syms, i, acc) ==
    IF i > Len(syms) THEN acc
    ELSE CHOOSE out \in
           { IF ~r.exc /\ r.val # NoneResult
             THEN screen_loop(self, gw, syms, i + 1,
                     [acc EXCEPT !.results = Append(@, r.val), !.successful_screens = @ + 1])
             ELSE screen_loop(self, gw, syms, i + 1, [acc EXCEPT !.failed_screens = @ + 1])
             : r \in {screen_single_stock(self, gw, syms[i])} } : TRUE

\* screen_multiple_stocks: ScreeningResults(results), with the two counters it
\* logs
screen_multiple_stocks(self, gw, syms) ==
    screen_loop(self, gw, syms, 1,
                [kind |-> "ScreeningResults", results |-> <<>>,
                 successful_screens |-> 0, failed_screens |-> 0])

\* ScreeningResult.has_signals
has_signals(result) == has_any_signal(result.signals)

\* ScreeningResults.total_screened
total_screened(rs) == Len(rs.results)

\* ScreeningResults.stocks_with_signals
stocks_with_signals(rs) == SelectSeq(rs.results, has_signals)

\* ScreeningResults.signal_count
stocks_signal_count(rs) == Len(stocks_with_signals(rs))

\* the sort key of get_top_signals
sort_key(x) ==
    <<signal_count(x.signals),
      IF x.signals.breakout.signal THEN x.signals.breakout.strength ELSE Zero,
      IF x.signals.volume.signal THEN x.signals.volume.volume_ratio ELSE Zero>>

\* tuple comparison a < b: the first components that differ decide
key_less(a, b) ==
    \/ a[1] < b[1]
    \/ a[1] = b[1] /\ FLt(a[2], b[2])
    \/ a[1] = b[1] /\ FEq(a[2], b[2]) /\ FLt(a[3], b[3])

\* sorted(..., key=..., reverse=True): descending, equal keys in their
\* original order
RECURSIVE sorted_reverse(_)
sorted_reverse(xs) ==
    IF xs = <<>> THEN <<>>
    ELSE CHOOSE r \in
           { LET before == p[1]
                 x == p[2]
                 n == Cardinality({i \in 1..Len(before) :
                                      ~key_less(sort_key(before[i]), sort_key(x))})
             IN  SubSeq(before, 1, n) \o <<x>> \o SubSeq(before, n + 1, Len(before))
             : p \in {<<sorted_reverse(SubSeq(xs, 1, Len(xs) - 1)), xs[Len(xs)]>>} } : TRUE

\* xs[:limit]
slice_to(xs, limit) ==
    IF limit >= 0 THEN SubSeq(xs, 1, Min(limit, Len(xs)))
    ELSE SubSeq(xs, 1, Max(0, Len(xs) + limit))

\* mutant: the stocks with signals in their input order
get_top_signals_unsorted(rs, limit) ==
    slice_to(stocks_with_signals(rs), limit)

\* ScreeningResults.get_top_signals
get_top_signals(rs, limit) ==
    CHOOSE r \in { slice_to(sorted_reverse(signal_stocks), limit)
                     : signal_stocks \in {stocks_with_signals(rs)} } : TRUE

\* the loop of get_top_opportunities: each top result is fetched again and,
\* when data comes back, given the quality of its signals on the new frame
RECURSIVE enhanced_opportunities(_, _, _)
enhanced_opportunities(self, gw, top_signals) ==
    IF top_signals = <<>> THEN Ok(<<>>)
    ELSE LET result == top_signals[Len(top_signals)]
             before == enhanced_opportunities(self, gw,
                          SubSeq(top_signals, 1, Len(top_signals) - 1))
             raw_data == fetch_stock_data(gw, result.symbol, 2)
         IN  IF before.exc \/ raw_data.kind = "raises" THEN Raise
             ELSE IF raw_data.kind = "none" THEN Ok(Append(before.val, result))
             ELSE CHOOSE r \in
                    { IF enhanced.exc THEN Raise
                      ELSE Ok(Append(before.val,
                                [kind |-> "ScreeningResult", symbol |-> result.symbol,
                                 stock_price |-> result.stock_price,
                                 signals |-> result.signals,
                                 quality |-> analyze_signal_quality(result.signals,
                                                                    enhanced.val).val]))
                      : enhanced \in {calculate_all_indicators(raw_data.data)} } : TRUE

-----------------------------------------------------------------------------
(* Detector configurations *)

\* SignalDetectionService.__init__: the instance holds the two thresholds
SignalDetectionService(volume_spike_threshold, breakout_threshold) ==
    [volume_spike_threshold |-> volume_spike_threshold,
     breakout_threshold |-> breakout_threshold]

\* SignalDetectionService(volume_spike_threshold=2.0, breakout_threshold=0.02)
DefaultConfig == SignalDetectionService(Frac(2, 1), Frac(2, 100))

\* ScreenerConfiguration(volume_spike_threshold=4.0, breakout_threshold=0.05)
ConservativeConfig == SignalDetectionService(Frac(4, 1), Frac(5, 100))

\* ScreenerConfiguration(volume_spike_threshold=1.5, breakout_threshold=0.01)
LiberalConfig == SignalDetectionService(Frac(15, 10), Frac(1, 100))

Configs == {DefaultConfig, ConservativeConfig}

-----------------------------------------------------------------------------
(* The frames the detector is run on.  The detector reads the trailing     *)
(* LOOKBACK bars only, so a frame is its trailing bars, drawn from the     *)
(* families below, after a prefix of equal bars.  The prefix bars would    *)
(* satisfy every rule (a volume spike, a close at or below resistance and  *)
(* SMA_20), so a rule that looked one bar too far back would show.         *)

DetectorColumns == {"Close", "Resistance", "Volume", "Volume_MA_20", "SMA_20", "SMA_50"}

\* the levels of the model's frames: resistance and average volume
Level == 100

Bar(close, resistance, volume, volume_ma, sma20, sma50) ==
    [Close |-> close, Resistance |-> resistance, Volume |-> volume,
     Volume_MA_20 |-> volume_ma, SMA_20 |-> sma20, SMA_50 |-> sma50]

PrefixBar ==
    Bar(Level - 2, Level, 6 * Level, WINDOW_20 * Level, WINDOW_20 * Level,
        WINDOW_50 * (Level - 2))

\* the close exactly at resistance * (1 - breakout_threshold)
AtThreshold(cfg) ==
    (Level * (cfg.breakout_threshold.den - cfg.breakout_threshold.num))
        \div cfg.breakout_threshold.den

\* the volume exactly at volume_spike_threshold * average
AtSpike(cfg) ==
    (Level * cfg.volume_spike_threshold.num) \div cfg.volume_spike_threshold.den

\* the volume exactly at 1.2 * average
AtConfirmation == (Level * 12) \div 10

Closes(cfg) == {AtThreshold(cfg), Level, Level + 1}

\* a tail of LOOKBACK bars: t[i] is data.iloc[-i]
TailBars(closes, resistances, volumes, volume_mas, sma20_latest, sma20_previous, sma50_latest) ==
    [i \in 1..LOOKBACK |->
        Bar(closes[i], resistances[i], volumes[i], volume_mas[i],
            IF i = 1 THEN sma20_latest
            ELSE IF i = 2 THEN sma20_previous ELSE WINDOW_20 * Level,
            IF i = 1 THEN sma50_latest ELSE WINDOW_50 * Level)]

Const(v) == [i \in 1..LOOKBACK |-> v]

\* the constant sequence with v at position p (p = 0: nowhere)
OneAt(base, p, v) == [i \in 1..LOOKBACK |-> IF i = p THEN v ELSE base]

\* resistance rule: every pattern of closes, a confirming volume on one bar or none
ResistanceTails(cfg) ==
    { TailBars(closes, Const(Level), OneAt(Level, pv[1], pv[2]), Const(WINDOW_20 * Level),
           WINDOW_20 * Level, WINDOW_20 * Level, WINDOW_50 * (Level + 1)) :
        closes \in [1..LOOKBACK -> Closes(cfg)],
        pv \in ((1..LOOKBACK) \X {AtConfirmation + 1}) \cup {<<0, Level>>, <<1, AtConfirmation>>} }

SMA20s == {WINDOW_20 * (Level - 1), WINDOW_20 * Level, NaN}
SMA50s == {WINDOW_50 * (Level - 1), WINDOW_50 * (Level + 1), NaN}

\* moving-average rule: the latest two closes against every SMA_20 and SMA_50
MaTails(cfg) ==
    { TailBars([i \in 1..LOOKBACK |-> IF i <= 2 THEN c[i] ELSE AtThreshold(cfg)],
           Const(Level), OneAt(Level, pv[1], pv[2]), Const(WINDOW_20 * Level),
           s[1], s[2], s[3]) :
        c \in Closes(cfg) \X Closes(cfg),
        s \in SMA20s \X SMA20s \X SMA50s,
        pv \in {<<0, Level>>, <<1, AtConfirmation + 1>>, <<3, AtConfirmation + 1>>} }

\* volume rule: the latest volume around the thresholds, one more bar, the average
VolumeTails(cfg) ==
    { TailBars(OneAt(AtThreshold(cfg), 1, c), Const(Level),
           [i \in 1..LOOKBACK |-> IF i = 1 THEN v ELSE IF i = pv[1] THEN pv[2] ELSE Level],
           OneAt(WINDOW_20 * Level, pm[1], pm[2]),
           WINDOW_20 * Level, WINDOW_20 * Level, WINDOW_50 * (Level + 1)) :
        c \in {AtThreshold(cfg), Level - 1, Level},
        v \in {Level, AtConfirmation, AtSpike(cfg) - 1, AtSpike(cfg), NaN},
        pv \in ((2..LOOKBACK) \X {AtSpike(cfg) - 1, AtSpike(cfg), 2 * AtSpike(cfg)})
                  \cup {<<0, Level>>},
        pm \in {<<0, 0>>, <<1, 0>>, <<1, NaN>>, <<2, 0>>} }

Tails(cfg) == ResistanceTails(cfg) \cup MaTails(cfg) \cup VolumeTails(cfg)

\* frames that lack columns or hold undefined cells: tails on which the rules
\* would match, with a NaN resistance on one bar or none
FaultTails(cfg) ==
    { TailBars(OneAt(AtThreshold(cfg), 1, c), OneAt(Level, pr, NaN),
               OneAt(Level, pv, AtSpike(cfg)), Const(WINDOW_20 * Level),
               WINDOW_20 * Level, WINDOW_20 * Level, s50) :
        c \in {AtThreshold(cfg), Level + 1},
        pr \in 0..2,
        pv \in {0, 1, 3},
        s50 \in {WINDOW_50 * (Level - 1), WINDOW_50 * (Level + 1)} }

\* the column sets of those frames: at most two columns missing, none at all,
\* or pd.DataFrame({'Close': ..., 'Volume': ...})
FaultColumns ==
    { DetectorColumns \ {a, b} : a, b \in DetectorColumns }
        \cup {{}, {"Close", "Volume"}}

\* the frame of n bars with the given columns that ends with the tail
Frame(n, columns, tail) ==
    [columns |-> columns,
     rows |-> [k \in 1..n |->
                 LET bar == IF n + 1 - k <= LOOKBACK THEN tail[n + 1 - k] ELSE PrefixBar
                 IN  [c \in columns |-> bar[c]]]]

Lengths == {0, 1, MIN_BARS - 1} \cup (MIN_BARS..MaxBars)

-----------------------------------------------------------------------------
(* The frames and signals the quality analysis is run on.  It reads the    *)
(* latest bar only: a frame is its latest bar, drawn from the families     *)
(* below, after bars that would earn every factor.                         *)

QualityColumns == {"Close", "Volume", "Volume_MA_20", "SMA_20", "SMA_50", "Price_Volatility"}

QualityBar(volume, volume_ma, sma20, sma50, volatility) ==
    [Close |-> Level, Volume |-> volume, Volume_MA_20 |-> volume_ma, SMA_20 |-> sma20,
     SMA_50 |-> sma50, Price_Volatility |-> volatility]

\* the volume exactly at 1.5 * average
AtStrongVolume == (Level * 15) \div 10

\* the cell of a standard deviation of exactly 5% of Level
AtVolatility == (Level \div 20) * (Level \div 20) * WINDOW_20 * (WINDOW_20 - 1)

\* <<Volume, Volume_MA_20>>: at and above the average and 1.5 times it,
\* undefined values
VolumePairs ==
    {<<v, WINDOW_20 * Level>> : v \in {Level, Level + 1, AtStrongVolume, AtStrongVolume + 1, NaN}}
        \cup {<<AtStrongVolume + 1, NaN>>}

\* <<SMA_20, SMA_50>>: level, up and down trends at Level, undefined averages,
\* an uptrend at lower prices and one at price 0
TrendPairs ==
    {<<WINDOW_20 * Level, WINDOW_50 * m>> : m \in {Level - 1, Level, Level + 1}}
        \cup {<<WINDOW_20 * Level, NaN>>, <<NaN, WINDOW_50 * (Level - 1)>>,
              <<WINDOW_20 * (Level \div 2), WINDOW_50 * (Level \div 2 - 1)>>,
              <<0, 0 - WINDOW_50>>}

Volatilities == {0, AtVolatility - 1, AtVolatility, NaN}

\* breakout signals with a strength at and around 0.03
BreakoutSignals ==
    {BreakoutSignal_no_signal, BreakoutSignal_resistance_breakout(Zero),
     BreakoutSignal_resistance_breakout(Frac(4, 100)),
     BreakoutSignal_ma_breakout(Frac(3, 100)), BreakoutSignal_ma_breakout(Frac(4, 100))}

VolumeSignals == {VolumeSignal_no_signal(One), VolumeSignal_volume_spike(Frac(3, 1))}

\* the frame of n bars with the given columns that ends with the latest bar
QualityFrame(n, columns, latest) ==
    [columns |-> columns,
     rows |-> [k \in 1..n |->
                 LET bar == IF k = n THEN latest
                            ELSE QualityBar(6 * Level, WINDOW_20 * Level, WINDOW_20 * Level,
                                            WINDOW_50 * (Level - 2), 0)
                 IN  [c \in columns |-> bar[c]]]]

\* frames lacking a column the analysis reads
QualityFaultColumns ==
    {QualityColumns \ {c} : c \in {"Volume_MA_20", "SMA_50", "Price_Volatility"}}

-----------------------------------------------------------------------------
(* The price series the indicator engine is run on: bars at Level under a  *)
(* resistance set by the highs of the leading bars, then LOOKBACK trailing *)
(* bars whose closes stay, approach the resistance or break it, one of     *)
(* them (or none) on a spiking volume.  Every bar has low <= open, close   *)
(* <= high.                                                                *)

PriceColumns == {"Open", "High", "Low", "Close", "Volume"}

PriceBar(close, high, volume) ==
    [Open |-> close, High |-> high, Low |-> close - 1, Close |-> close, Volume |-> volume]

\* the resistance (the high) of the leading bars
PriorHighs == {Level + 1, Level + 10}

\* the closes of the trailing bars
SeriesCloses == {Level, Level + 9, Level + 12}

\* n bars: leading bars with the given high, then the trailing bars; t[i] is
\* the bar i from the end
Series(n, prior_high, closes, wick, spike_at) ==
    [columns |-> PriceColumns,
     rows |-> [k \in 1..n |->
                 LET i == n + 1 - k
                 IN  IF i <= LOOKBACK
                     THEN PriceBar(closes[i], closes[i] + wick,
                                   IF i = spike_at THEN 6 * Level ELSE Level)
                     ELSE PriceBar(Level, prior_high, Level)]]

SeriesLengths == {1, ShortSeries, MIN_BARS - 1, MIN_BARS, MaxSeries}

\* the frame without some of its columns
Drop(d, cols) ==
    [columns |-> d.columns \ cols,
     rows |-> [k \in 1..len(d) |-> [col \in d.columns \ cols |-> d.rows[k][col]]]]

\* malformed series: a breakout series that lacks one of the five fields, and
\* the empty frame pd.DataFrame()
MalformedSeries ==
    { Drop(Series(n, Level + 10, [i \in 1..LOOKBACK |-> Level + 12], 1, 1), {col}) :
        n \in SeriesLengths, col \in PriceColumns }
        \cup {EmptyFrame}

-----------------------------------------------------------------------------
(* The symbols a batch screens and what the gateway answers for them *)

\* n bars: bars at Level under the given high, then the latest bar
LatestBarSeries(n, prior_high, close, volume) ==
    [columns |-> PriceColumns,
     rows |-> [k \in 1..n |->
                 IF k = n THEN PriceBar(close, close + 1, volume)
                 ELSE PriceBar(Level, prior_high, Level)]]

\* WINDOW_50 + 1 bars: a base 20 under Level, then 18 bars at Level with highs
\* far above, a dip, and the latest bar back above its 20-bar average, itself
\* above the 50-bar average
TrendSeries(close, volume) ==
    [columns |-> PriceColumns,
     rows |-> [k \in 1..(WINDOW_50 + 1) |->
                 IF k = WINDOW_50 + 1 THEN PriceBar(close, close + 1, volume)
                 ELSE IF k = WINDOW_50 THEN PriceBar(Level - 10, Level - 9, Level)
                 ELSE IF k > WINDOW_50 + 1 - WINDOW_20 THEN PriceBar(Level, Level + 30, Level)
                 ELSE PriceBar(Level - 20, Level - 19, Level)]]

\* no signal: the close and the volume stay at Level
QuietSeries == LatestBarSeries(MaxSeries, Level + 10, Level, Level)
\* a latest volume of 3 times Level (2.7 times the average), the close under
\* the resistance band
VolumeSeries == LatestBarSeries(MaxSeries, Level + 10, Level, 3 * Level)
\* a latest close 4% under the resistance, on 1.3 times the usual volume
InBandSeries == LatestBarSeries(MaxSeries, Level + 10, Level + 6, (Level * 13) \div 10)
\* a latest close at a new high on 6 times the usual volume
BreakoutSeries == LatestBarSeries(MaxSeries, Level + 10, Level + 12, 6 * Level)
\* one bar short of the 21 required
TooShortSeries == LatestBarSeries(MIN_BARS - 1, Level + 10, Level + 12, 6 * Level)
\* the latest volume is missing
NoVolumeSeries == LatestBarSeries(MaxSeries, Level + 10, Level + 12, NaN)

\* the two responses of the gateway to a symbol that always answers the same
Steady(response) == <<response, response>>

GatewayAnswers ==
    {Steady(FetchNone), Steady(FetchRaises)}
        \cup {Steady(FetchData(d)) :
                d \in {TooShortSeries, Drop(BreakoutSeries, {"High"}), NoVolumeSeries,
                       QuietSeries, VolumeSeries, InBandSeries, BreakoutSeries,
                       TrendSeries(Level + 10, Level), TrendSeries(Level + 5, 3 * Level)}}
        \cup {<<FetchData(VolumeSeries), FetchNone>>, <<FetchData(BreakoutSeries), FetchRaises>>}

\* the answers for the third symbol
FewGatewayAnswers ==
    {Steady(FetchNone), Steady(FetchData(BreakoutSeries)),
     Steady(FetchData(TrendSeries(Level + 10, Level)))}

Symbols == {"A", "B", "C"}

SymbolLists == {<<>>, <<"A", "B", "C">>, <<"C", "A", "A">>}

\* the limits of get_top_signals
Limits == 0 - 1 .. Cardinality(Symbols)

-----------------------------------------------------------------------------
(* The state machine *)

NoSignals == [kind |-> "none"]
Raised == [kind |-> "raised"]
\* no second run yet
NotRepeated == [kind |-> "none"]
\* no quality analysis yet
NotAnalyzed == [kind |-> "none"]
\* no batch screening: no gateway, no symbols, no results
NotScreening ==
    /\ gateway = <<>>
    /\ symbols = <<>>
    /\ results = [kind |-> "none"]
    /\ top = [kind |-> "none"]

\* the detector is handed a frame
InitDetect ==
    /\ config \in Configs
    /\ \E n \in Lengths :
          \/ \E tail \in Tails(config) : frame = Frame(n, DetectorColumns, tail)
          \/ \E tail \in FaultTails(config), columns \in FaultColumns :
                frame = Frame(n, columns, tail)
    /\ data = EmptyFrame
    /\ signals = NoSignals
    /\ quality = NotAnalyzed
    /\ again = NotRepeated
    /\ pc = "enhanced"
    /\ NotScreening

\* signals = signal_service.detect_all_signals(enhanced_data)
DetectAllSignals ==
    /\ pc = "enhanced"
    /\ LET r == detect_all_signals(config, frame)
       IN  signals' = IF r.exc THEN Raised ELSE r.val
    /\ pc' = "detected"
    /\ UNCHANGED <<config, data, frame, quality, again, screening>>

\* a second detector with the same thresholds is run on the same frame
DetectAgain ==
    /\ pc = "detected"
    /\ LET other == SignalDetectionService(config.volume_spike_threshold,
                                           config.breakout_threshold)
           r == detect_all_signals(other, frame)
       IN  again' = [kind |-> "repeated", frame |-> frame,
                     signals |-> IF r.exc THEN Raised ELSE r.val]
    /\ pc' = "repeated"
    /\ UNCHANGED <<config, data, frame, signals, quality, screening>>

NextDetect == DetectAllSignals \/ DetectAgain

SpecDetect == InitDetect /\ [][NextDetect]_vars

\* the indicator engine is handed a price series
Init ==
    /\ config \in Configs
    /\ \/ \E n \in SeriesLengths, prior_high \in PriorHighs,
             closes \in [1..LOOKBACK -> SeriesCloses], wick \in 0..1,
             spike_at \in {0, 1, LOOKBACK} :
             data = Series(n, prior_high, closes, wick, spike_at)
       \/ data \in MalformedSeries
    /\ frame = EmptyFrame
    /\ signals = NoSignals
    /\ quality = NotAnalyzed
    /\ again = NotRepeated
    /\ pc = "raw"
    /\ NotScreening

\* enhanced_data = technical_service.calculate_all_indicators(raw_data)
CalculateAllIndicators ==
    /\ pc = "raw"
    /\ \E r \in {calculate_all_indicators(data)} :
          IF r.exc
          THEN pc' = "failed" /\ frame' = frame
          ELSE pc' = "enhanced" /\ frame' = r.val
    /\ data' = caller_data(data)
    /\ UNCHANGED <<config, signals, quality, again, screening>>

\* the same series is screened again, with new service instances of the same
\* thresholds: calculate_all_indicators, then detect_all_signals
ScreenAgain ==
    /\ pc = "detected"
    /\ \E e \in {calculate_all_indicators(data)} :
          LET other == SignalDetectionService(config.volume_spike_threshold,
                                              config.breakout_threshold)
              r == IF e.exc THEN Raise ELSE detect_all_signals(other, e.val)
          IN  again' = [kind |-> "repeated",
                        frame |-> IF e.exc THEN Raised ELSE e.val,
                        signals |-> IF r.exc THEN Raised ELSE r.val]
    /\ pc' = "repeated"
    /\ UNCHANGED <<config, data, frame, signals, quality, screening>>

\* quality = signal_service.analyze_signal_quality(signals, enhanced_data)
AnalyzeSignalQuality ==
    /\ pc = "detected"
    /\ quality' = analyze_signal_quality(signals, frame).val
    /\ pc' = "analyzed"
    /\ UNCHANGED <<config, data, frame, signals, again, screening>>

Next == CalculateAllIndicators \/ DetectAllSignals \/ ScreenAgain \/ AnalyzeSignalQuality

Spec == Init /\ [][Next]_vars

\* data.iloc[:k]: the first k bars of a series
Prefix(d, k) == [columns |-> d.columns, rows |-> SubSeq(d.rows, 1, k)]

\* the indicator engine is handed a price series with the default detector
InitPrefix ==
    /\ config = DefaultConfig
    /\ \E n \in SeriesLengths, prior_high \in PriorHighs,
          closes \in [1..LOOKBACK -> {Level, Level + 12}], spike_at \in {0, 1, LOOKBACK} :
          data = Series(n, prior_high, closes, 1, spike_at)
    /\ frame = EmptyFrame
    /\ signals = NoSignals
    /\ quality = NotAnalyzed
    /\ again = NotRepeated
    /\ pc = "raw"
    /\ NotScreening

\* calculate_all_indicators(data.iloc[:k]) for a prefix of the series
CalculateOnPrefix ==
    /\ pc = "enhanced"
    /\ \E k \in 1..len(data) :
          \E r \in {calculate_all_indicators(Prefix(data, k))} :
              again' = [kind |-> "prefix", k |-> k,
                        frame |-> IF r.exc THEN Raised ELSE r.val]
    /\ pc' = "truncated"
    /\ UNCHANGED <<config, data, frame, signals, quality, screening>>

NextPrefix == CalculateAllIndicators \/ CalculateOnPrefix

SpecPrefix == InitPrefix /\ [][NextPrefix]_vars

\* the quality analysis is handed signals and a frame
InitQuality ==
    /\ config = DefaultConfig
    /\ \E breakout \in BreakoutSignals, volume \in VolumeSignals :
          signals = CombinedSignals(breakout, volume)
    /\ \E volumes \in VolumePairs, trend \in TrendPairs, volatility \in Volatilities :
          LET latest == QualityBar(volumes[1], volumes[2], trend[1], trend[2], volatility)
          IN  \/ \E n \in 1..2 : frame = QualityFrame(n, QualityColumns, latest)
              \/ /\ volumes[1] = AtStrongVolume + 1
                 /\ volatility = 0
                 /\ \/ \E columns \in QualityFaultColumns :
                          frame = QualityFrame(1, columns, latest)
                    \/ frame = QualityFrame(0, QualityColumns, latest)
    /\ data = EmptyFrame
    /\ quality = NotAnalyzed
    /\ again = NotRepeated
    /\ pc = "detected"
    /\ NotScreening

\* the scenario with some of volume confirmation, uptrend and strong breakout
\* made true on the latest bar, everything else as it was, is analysed
ImproveScenario ==
    /\ pc = "analyzed"
    /\ len(frame) > 0
    /\ \E added \in (SUBSET {"volume", "uptrend", "breakout"}) \ {{}} :
       \E volumes \in {<<Level + 1, WINDOW_20 * Level>>, <<AtStrongVolume + 1, WINDOW_20 * Level>>},
          trend \in {<<WINDOW_20 * Level, WINDOW_50 * (Level - 1)>>,
                     <<WINDOW_20 * (Level \div 2), WINDOW_50 * (Level \div 2 - 1)>>},
          breakout \in {BreakoutSignal_ma_breakout(Frac(4, 100))} :
          LET latest == iloc(frame, 1)
              bar == [c \in frame.columns |->
                        IF "volume" \in added /\ c = "Volume" THEN volumes[1]
                        ELSE IF "volume" \in added /\ c = "Volume_MA_20" THEN volumes[2]
                        ELSE IF "uptrend" \in added /\ c = "SMA_20" THEN trend[1]
                        ELSE IF "uptrend" \in added /\ c = "SMA_50" THEN trend[2]
                        ELSE latest[c]]
              d == [frame EXCEPT !.rows[len(frame)] = bar]
              s == IF "breakout" \in added THEN CombinedSignals(breakout, signals.volume)
                   ELSE signals
          IN  again' = [kind |-> "improved", added |-> added, frame |-> d, signals |-> s,
                        quality |-> analyze_signal_quality(s, d).val]
    /\ pc' = "improved"
    /\ UNCHANGED <<config, data, frame, signals, quality, screening>>

NextQuality == AnalyzeSignalQuality \/ ImproveScenario

SpecQuality == InitQuality /\ [][NextQuality]_vars

\* a screener service with the default configuration, a gateway and the
\* symbols to screen
InitScreen ==
    /\ config = DefaultConfig
    /\ \E a \in GatewayAnswers, b \in GatewayAnswers, c \in FewGatewayAnswers :
          gateway = [symbol \in Symbols |->
                        IF symbol = "A" THEN a ELSE IF symbol = "B" THEN b ELSE c]
    /\ symbols \in SymbolLists
    /\ results = [kind |-> "none"]
    /\ top = [kind |-> "none"]
    /\ data = EmptyFrame
    /\ frame = EmptyFrame
    /\ signals = NoSignals
    /\ quality = NotAnalyzed
    /\ again = NotRepeated
    /\ pc = "symbols"

\* results = service.screen_multiple_stocks(symbols)
ScreenMultipleStocks ==
    /\ pc = "symbols"
    /\ results' = screen_multiple_stocks(config, gateway, symbols)
    /\ pc' = "screened"
    /\ UNCHANGED <<config, data, frame, signals, quality, again, gateway, symbols, top>>

\* results.get_top_signals(limit)
GetTopSignals ==
    /\ pc = "screened"
    /\ \E limit \in Limits :
          top' = [kind |-> "top_signals", limit |-> limit,
                  list |-> get_top_signals(results, limit)]
    /\ pc' = "ranked"
    /\ UNCHANGED <<config, data, frame, signals, quality, again, gateway, symbols, results>>

\* service.get_top_opportunities(symbols, limit): the symbols are screened,
\* the top signals taken and given their quality; [] when anything raises
GetTopOpportunities ==
    /\ pc = "symbols"
    /\ \E screened \in {screen_multiple_stocks(config, gateway, symbols)} :
          /\ results' = screened
          /\ \E limit \in Limits :
                top' = [kind |-> "top_opportunities", limit |-> limit,
                        list |-> Catch(enhanced_opportunities(config, gateway,
                                          get_top_signals(screened, limit)), <<>>).val]
    /\ pc' = "opportunities"
    /\ UNCHANGED <<config, data, frame, signals, quality, again, gateway, symbols>>

\* the same symbols are screened by a liberal and by a conservative service
\* on the same gateway
ScreenConfigurations ==
    /\ pc = "symbols"
    /\ again' = [kind |-> "configurations",
                 liberal |-> screen_multiple_stocks(LiberalConfig, gateway, symbols),
                 conservative |-> screen_multiple_stocks(ConservativeConfig, gateway, symbols)]
    /\ pc' = "configured"
    /\ UNCHANGED <<config, data, frame, signals, quality, screening>>

NextScreen ==
    ScreenMultipleStocks \/ GetTopSignals \/ GetTopOpportunities \/ ScreenConfigurations

SpecScreen == InitScreen /\ [][NextScreen]_vars

-----------------------------------------------------------------------------
(* The rules as the specification states them, read off a frame.  A field  *)
(* the frame lacks is undefined, and no comparison with an undefined value *)
(* holds.                                                                  *)

Field(d, i, col) == IF Has(d, col) THEN Cell(d, i, col) ELSE FNaN

Detected == pc = "detected"

AllNoSignal == CombinedSignals(BreakoutSignal_no_signal, VolumeSignal_no_signal(Zero))

\* close of the bar i from the end > its resistance x (1 - breakoutThreshold)
AboveBand(cfg, d, i) ==
    FGt(Field(d, i, "Close"),
        FMul(Field(d, i, "Resistance"), FSub(One, cfg.breakout_threshold)))

\* (b) a cross between two consecutive bars of the trailing 5
RecentCross(cfg, d) ==
    \E i \in 1..4 :
        /\ AboveBand(cfg, d, i)
        /\ FLe(Field(d, i + 1, "Close"), Field(d, i + 1, "Resistance"))

\* volume of the bar i from the end > 1.2 x its volumeMA20
Confirms(d, i) ==
    FGt(Field(d, i, "Volume"), FMul(Field(d, i, "Volume_MA_20"), Frac(12, 10)))

\* (c) a confirming bar among the trailing 5
VolumeConfirmed(d) == \E i \in 1..5 : Confirms(d, i)

ResistanceRule(cfg, d) ==
    AboveBand(cfg, d, 1) /\ RecentCross(cfg, d) /\ VolumeConfirmed(d)

\* the cross of the close above sma20 between the previous and the latest bar
MaCross(d) ==
    /\ FGt(Field(d, 1, "Close"), Field(d, 1, "SMA_20"))
    /\ FLe(Field(d, 2, "Close"), Field(d, 2, "SMA_20"))

MaRule(d) == MaCross(d) /\ FGt(Field(d, 1, "SMA_20"), Field(d, 1, "SMA_50"))

\* the ratio volume / volumeMA20 of the bar i from the end reaches the threshold
Spikes(cfg, d, i) ==
    /\ FGt(Field(d, i, "Volume_MA_20"), Zero)
    /\ FGe(FDiv(Field(d, i, "Volume"), Field(d, i, "Volume_MA_20")),
           cfg.volume_spike_threshold)

SpikeRule(cfg, d) == \E i \in 1..5 : Spikes(cfg, d, i)

\* which computations of the detector fault on the frame
ResistanceFault(cfg, d) == check_resistance_breakout_with_data_body(cfg, d).exc
MaFault(cfg, d) ==
    LET resistance == _check_resistance_breakout_with_data(cfg, d)
    IN  /\ resistance.exc \/ ~resistance.val.hit
        /\ check_ma_breakout_body(d).exc
VolumeFault(cfg, d) == detect_volume_signals_body(cfg, d).exc

-----------------------------------------------------------------------------
(* Claims *)

\* C1: a frame of fewer than 21 bars, whatever it holds, yields breakout =
\* NoSignal (signal false, no type, strength 0) and volume = no spike, ratio 0
C1_InsufficientData ==
    (Detected /\ len(frame) < 21) =>
        /\ signals.kind = "CombinedSignals"
        /\ signals.breakout = [signal |-> FALSE, signal_type |-> None, strength |-> Zero]
        /\ signals.volume = [signal |-> FALSE, volume_ratio |-> Zero]

\* a frame of 20 bars whose trailing bars satisfy every rule, and no signal
C1_Witness ==
    /\ Detected
    /\ len(frame) = 20
    /\ ResistanceRule(config, frame)
    /\ SpikeRule(config, frame)
    /\ signals = AllNoSignal

\* C2: detect_all_signals never raises: on every frame (empty, missing
\* columns, undefined values) it returns a CombinedSignals value
C2_NeverRaises == Detected => signals.kind = "CombinedSignals"

\* a frame of 21 or more bars that lacks Close: every rule faults inside, and a
\* CombinedSignals value is returned
C2_Witness ==
    /\ Detected
    /\ len(frame) >= 21
    /\ ~Has(frame, "Close")
    /\ ResistanceFault(config, frame)
    /\ signals.kind = "CombinedSignals"

PriorResistance(d, k) ==
    MaxRows(d, "High", Max(1, k - WINDOW_20), k - 1)

\* row k of the series closes above the resistance set by the preceding bars,
\* on a volume of at least the spike threshold times its 20-bar average
BreakoutBar(cfg, d, enhanced, k) ==
    /\ k >= 2
    /\ d.rows[k]["Close"] > PriorResistance(d, k)
    /\ enhanced.rows[k]["Volume_MA_20"] # NaN
    /\ FGe(Val(d.rows[k]["Volume"], "Volume"),
           FMul(cfg.volume_spike_threshold,
                Val(enhanced.rows[k]["Volume_MA_20"], "Volume_MA_20")))

\* C6: when a bar inside the trailing 5-bar window of a series of at least 21
\* bars closes above the resistance level set by the preceding bars, with
\* volume at least the spike threshold times average, detect_all_signals
\* reports breakout.signal = true with type ResistanceBreakout, a strictly
\* positive strength equal to (breakout close - prior resistance) / prior
\* resistance, and volume.signal = true.
C6_ResistanceBreakoutScenario ==
    (Detected /\ len(data) >= MIN_BARS) =>
        \A k \in (len(data) + 1 - LOOKBACK)..len(data) :
            BreakoutBar(config, data, frame, k) =>
                /\ signals.kind = "CombinedSignals"
                /\ signals.breakout.signal
                /\ signals.breakout.signal_type = RESISTANCE_BREAKOUT
                /\ FGt(signals.breakout.strength, Zero)
                /\ FEq(signals.breakout.strength,
                       Frac(data.rows[k]["Close"] - PriorResistance(data, k),
                            PriorResistance(data, k)))
                /\ signals.volume.signal

\* C6, what the detector does in that scenario when the breaking bar is the
\* latest one: a ResistanceBreakout and a volume spike, with strength 0
C6_LatestBarBreakoutHasZeroStrength ==
    (Detected /\ len(data) >= MIN_BARS /\ BreakoutBar(config, data, frame, len(data))) =>
        /\ signals.kind = "CombinedSignals"
        /\ signals.breakout = BreakoutSignal_resistance_breakout(Zero)
        /\ signals.volume.signal

C6_Witness ==
    /\ Detected
    /\ len(data) = MaxSeries
    /\ BreakoutBar(config, data, frame, len(data) + 1 - LOOKBACK)
    /\ signals.kind = "CombinedSignals"
    /\ signals.breakout = BreakoutSignal_resistance_breakout(Zero)
    /\ signals.volume.signal

\* C7: on a frame of at least 21 bars on which the resistance rule does not
\* match, MaBreakout is reported iff latestClose > latestSma20, previousClose
\* <= previousSma20 and latestSma20 > latestSma50; its strength is
\* max(0, (latestClose - latestSma20) / latestSma20)
C7_MaBreakoutIff ==
    (Detected /\ len(frame) >= 21 /\ ~ResistanceRule(config, frame)) =>
        /\ (signals.breakout.signal_type = MA_BREAKOUT) =
              (/\ FGt(Field(frame, 1, "Close"), Field(frame, 1, "SMA_20"))
               /\ FLe(Field(frame, 2, "Close"), Field(frame, 2, "SMA_20"))
               /\ FGt(Field(frame, 1, "SMA_20"), Field(frame, 1, "SMA_50")))
        /\ (signals.breakout.signal_type = MA_BREAKOUT) =>
              LET c == iloc(frame, 1)["Close"]
                  s == iloc(frame, 1)["SMA_20"]
              IN  \* (c - s/20) / (s/20) = (20c - s) / s, and it is positive
                  /\ signals.breakout.strength.num * s
                        = (WINDOW_20 * c - s) * signals.breakout.strength.den
                  /\ signals.breakout.strength.num > 0
                  /\ signals.breakout.strength.den > 0

\* a MaBreakout whose previous close is exactly its SMA_20
C7_Witness ==
    /\ Detected
    /\ len(frame) >= 21
    /\ ~ResistanceRule(config, frame)
    /\ signals.breakout.signal_type = MA_BREAKOUT
    /\ FEq(Field(frame, 2, "Close"), Field(frame, 2, "SMA_20"))

\* the latest bar has sma20 < sma50
Downtrend(d) == FGt(Field(d, 1, "SMA_50"), Field(d, 1, "SMA_20"))

\* C8, as stated: in a downtrend a cross of the close above sma20 does not
\* signal: breakout.signal = false
C8_TrendGateNoSignal ==
    (Detected /\ len(frame) >= 2 /\ Downtrend(frame) /\ MaCross(frame)) =>
        ~signals.breakout.signal

\* C8, amended: in a downtrend a cross of the close above sma20 never reports
\* MaBreakout; breakout.signal is false unless the resistance rule matches,
\* and then ResistanceBreakout is reported
C8_TrendGateNoMaBreakout ==
    (Detected /\ len(frame) >= 2 /\ Downtrend(frame) /\ MaCross(frame)) =>
        /\ signals.breakout.signal_type # MA_BREAKOUT
        /\ signals.breakout.signal =>
              /\ signals.breakout.signal_type = RESISTANCE_BREAKOUT
              /\ ResistanceRule(config, frame)
        /\ ~ResistanceRule(config, frame) => ~signals.breakout.signal

\* a cross in a downtrend on 21 or more bars, and no breakout
C8_Witness ==
    /\ Detected
    /\ len(frame) >= 21
    /\ Downtrend(frame)
    /\ MaCross(frame)
    /\ ~signals.breakout.signal

\* C9, as stated: breakout.signal = false whenever no bar of the trailing 5
\* has volume above 1.2 x its volumeMA20
C9_NoBreakoutWithoutVolume ==
    (Detected /\ len(frame) >= 5 /\ ~VolumeConfirmed(frame)) =>
        ~signals.breakout.signal

\* C9, amended: whenever no bar of the trailing 5 has volume above 1.2 x its
\* volumeMA20, ResistanceBreakout is not reported; breakout.signal is false
\* unless the moving-average rule, which needs no volume, matches
C9_NoResistanceBreakoutWithoutVolume ==
    (Detected /\ len(frame) >= 5 /\ ~VolumeConfirmed(frame)) =>
        /\ signals.breakout.signal_type # RESISTANCE_BREAKOUT
        /\ signals.breakout.signal =>
              /\ signals.breakout.signal_type = MA_BREAKOUT
              /\ MaRule(frame)
        /\ ~MaRule(frame) => ~signals.breakout.signal

\* the close is above resistance after a cross, on unconfirmed volume, and no
\* breakout is reported
C9_Witness ==
    /\ Detected
    /\ len(frame) >= 21
    /\ ~VolumeConfirmed(frame)
    /\ FGt(Field(frame, 1, "Close"), Field(frame, 1, "Resistance"))
    /\ RecentCross(config, frame)
    /\ ~signals.breakout.signal

\* the volume of the bar i from the end, plus k, is exactly threshold x volumeMA20
ExactlyAtSpike(cfg, d, i, k) ==
    /\ Has(d, "Volume") /\ Has(d, "Volume_MA_20")
    /\ iloc(d, i)["Volume"] # NaN
    /\ iloc(d, i)["Volume_MA_20"] > 0
    /\ (iloc(d, i)["Volume"] + k) * WINDOW_20 * cfg.volume_spike_threshold.den
          = cfg.volume_spike_threshold.num * iloc(d, i)["Volume_MA_20"]

\* C10: on a frame of at least 21 bars the volume signal is true iff one of
\* the trailing 5 bars has volume / volumeMA20 >= volumeSpikeThreshold (the
\* ratio counting as 0 when volumeMA20 is 0 or undefined); a latest volume of
\* exactly threshold x volumeMA20 signals, one unit less does not when no
\* other bar qualifies
C10_VolumeSpikeIff ==
    (Detected /\ len(frame) >= 21) =>
        /\ signals.volume.signal =
              (\E i \in 1..5 :
                  /\ FGt(Field(frame, i, "Volume_MA_20"), Zero)
                  /\ FGe(FDiv(Field(frame, i, "Volume"), Field(frame, i, "Volume_MA_20")),
                         config.volume_spike_threshold))
        /\ ExactlyAtSpike(config, frame, 1, 0) => signals.volume.signal
        /\ (/\ ExactlyAtSpike(config, frame, 1, 1)
            /\ \A i \in 2..5 : ~Spikes(config, frame, i)) => ~signals.volume.signal

\* the latest volume is exactly threshold x volumeMA20, no other bar
\* qualifies, and the spike is signalled
C10_Witness ==
    /\ Detected
    /\ len(frame) >= 21
    /\ ExactlyAtSpike(config, frame, 1, 0)
    /\ \A i \in 2..5 : ~Spikes(config, frame, i)
    /\ signals.volume.signal

\* one unit less than threshold x volumeMA20 on the latest bar: no spike
C10_WitnessBelow ==
    /\ Detected
    /\ len(frame) >= 21
    /\ ExactlyAtSpike(config, frame, 1, 1)
    /\ ~signals.volume.signal

\* the ratio of the bar i from the end: volume / volumeMA20, 0 when the
\* volumeMA20 is 0 or undefined
OwnRatio(d, i) ==
    IF FGt(Field(d, i, "Volume_MA_20"), Zero)
    THEN FDiv(Field(d, i, "Volume"), Field(d, i, "Volume_MA_20"))
    ELSE Zero

\* r is the maximum of the ratios of the trailing 5 bars
IsMaxRatio(d, r) ==
    /\ \E i \in 1..5 : r = OwnRatio(d, i)
    /\ \A i \in 1..5 : FIsNaN(OwnRatio(d, i)) \/ FGe(r, OwnRatio(d, i))

\* C11: on a frame of at least 21 bars the reported ratio is the maximum ratio
\* of the trailing 5 bars when a spike is signalled (so it is at least the
\* threshold), and the latest bar's own ratio when none is signalled, which is
\* 0 when the latest volumeMA20 is 0 or undefined
C11_ReportedRatio ==
    (Detected /\ len(frame) >= 21) =>
        /\ signals.volume.signal =>
              /\ IsMaxRatio(frame, signals.volume.volume_ratio)
              /\ FGe(signals.volume.volume_ratio, config.volume_spike_threshold)
        /\ ~signals.volume.signal =>
              IF FGt(Field(frame, 1, "Volume_MA_20"), Zero)
              THEN \/ FIsNaN(Field(frame, 1, "Volume"))
                   \/ signals.volume.volume_ratio = OwnRatio(frame, 1)
              ELSE signals.volume.volume_ratio = Zero

\* a spike whose maximum ratio is not on the latest bar
C11_Witness ==
    /\ Detected
    /\ len(frame) >= 21
    /\ signals.volume.signal
    /\ FGt(signals.volume.volume_ratio, OwnRatio(frame, 1))
    /\ FGt(OwnRatio(frame, 1), Zero)

\* no spike: the latest ratio is reported although an earlier bar of the
\* window has a higher one
C11_WitnessNoSpike ==
    /\ Detected
    /\ len(frame) >= 21
    /\ ~signals.volume.signal
    /\ signals.volume.volume_ratio = OwnRatio(frame, 1)
    /\ \E i \in 2..5 : FGt(OwnRatio(frame, i), OwnRatio(frame, 1))
    /\ FGt(OwnRatio(frame, 1), Zero)

\* no spike on a latest bar whose volumeMA20 is 0: ratio 0
C11_WitnessZeroAverage ==
    /\ Detected
    /\ len(frame) >= 21
    /\ Field(frame, 1, "Volume_MA_20") = Zero
    /\ FGt(Field(frame, 1, "Volume"), Zero)
    /\ ~signals.volume.signal
    /\ signals.volume.volume_ratio = Zero

\* C12: every BreakoutSignal returned is well-formed: signal = false implies
\* no signal_type and strength 0; signal = true implies signal_type is
\* ResistanceBreakout or MaBreakout and strength >= 0
C12_BreakoutWellFormed ==
    (Detected /\ signals.kind = "CombinedSignals") =>
        /\ ~signals.breakout.signal =>
              /\ signals.breakout.signal_type = None
              /\ signals.breakout.strength = Zero
        /\ signals.breakout.signal =>
              /\ signals.breakout.signal_type \in {RESISTANCE_BREAKOUT, MA_BREAKOUT}
              /\ FGe(signals.breakout.strength, Zero)

\* a ResistanceBreakout on a latest close between the threshold and the
\* resistance: (close - resistance) / resistance < 0, and the strength is 0
C12_Witness ==
    /\ Detected
    /\ len(frame) >= 21
    /\ signals.breakout.signal
    /\ signals.breakout.signal_type = RESISTANCE_BREAKOUT
    /\ FGt(Field(frame, 1, "Resistance"), Field(frame, 1, "Close"))
    /\ signals.breakout.strength = Zero

\* C13: for every CombinedSignals value has_any_signal = (breakout.signal or
\* volume.signal), signal_count is the number of the two flags that are true
\* (so 0, 1 or 2), and has_any_signal holds exactly when signal_count >= 1
C13_DerivedFlags ==
    (Detected /\ signals.kind = "CombinedSignals") =>
        /\ has_any_signal(signals) = (signals.breakout.signal \/ signals.volume.signal)
        /\ signal_count(signals) =
              Cardinality({f \in {"breakout", "volume"} : signals[f].signal})
        /\ signal_count(signals) \in {0, 1, 2}
        /\ has_any_signal(signals) = (signal_count(signals) >= 1)

\* both flags are true and the count is 2
C13_Witness ==
    /\ Detected
    /\ signals.kind = "CombinedSignals"
    /\ signals.breakout.signal
    /\ signals.volume.signal
    /\ has_any_signal(signals)
    /\ signal_count(signals) = 2

\* exactly one flag is true and the count is 1
C13_WitnessOne ==
    /\ Detected
    /\ signals.kind = "CombinedSignals"
    /\ signals.breakout.signal # signals.volume.signal
    /\ has_any_signal(signals)
    /\ signal_count(signals) = 1

C15_WitnessRaised ==
    /\ pc = "failed"
    /\ len(data) = MaxSeries
    /\ data.columns = PriceColumns \ {"Volume"}

\* C16: calculate_all_indicators propagates an error whenever the input lacks
\* any one of the five fields Open, High, Low, Close, Volume; it never returns
\* a frame for such an input
C16_MissingFieldRaises ==
    (pc # "raw" /\ \E col \in PriceColumns : ~Has(data, col)) => pc = "failed"

\* C16, what the engine does: it raises exactly when a field it reads (Close,
\* Volume, High, Low) is missing; Open is read by no indicator
C16_RaisesIffReadFieldMissing ==
    pc # "raw" =>
        ((pc = "failed") = (\E col \in {"Close", "Volume", "High", "Low"} : ~Has(data, col)))

\* a series without Open, for which a frame with the indicators is returned
C16_WitnessNoOpen ==
    /\ pc = "enhanced"
    /\ len(data) = MaxSeries
    /\ data.columns = PriceColumns \ {"Open"}
    /\ frame.columns = data.columns \cup IndicatorColumns

\* calculate_all_indicators has returned the frame of the series
Enhanced == pc \in {"enhanced", "detected", "repeated", "analyzed"}

\* the value of Price_Change_Pct on row k: (close[k] - close[k-1]) / close[k-1]
price_change_pct(d, k) ==
    IF d.rows[k]["Price_Change_Pct"] = NaN THEN FNaN
    ELSE Frac(d.rows[k]["Price_Change_Pct"], d.rows[k - 1]["Close"])

\* close[lo] + ... + close[hi]
RECURSIVE CloseSum(_, _, _)
CloseSum(d, lo, hi) ==
    IF lo > hi THEN 0 ELSE d.rows[lo]["Close"] + CloseSum(d, lo + 1, hi)

\* C17: sma20[t] is defined iff t >= 19 (row k = t + 1 >= 20), and then it is
\* the mean of close[t-19..t]; for a series of 1..19 bars the call succeeds
\* with sma20 undefined on every bar, and priceChangePct is defined on every
\* bar t >= 1
C17_Sma20Window ==
    /\ (pc # "raw" /\ data.columns = PriceColumns) => Enhanced
    /\ (Enhanced /\ Has(data, "Close")) =>
          \A k \in 1..len(frame) :
              /\ (frame.rows[k]["SMA_20"] # NaN) = (k >= 20)
              /\ k >= 20 =>
                    Val(frame.rows[k]["SMA_20"], "SMA_20") = Frac(CloseSum(data, k - 19, k), 20)
              /\ (frame.rows[k]["Price_Change_Pct"] # NaN) = (k >= 2)
              /\ k >= 2 =>
                    price_change_pct(frame, k) =
                        FSub(FDiv(Frac(data.rows[k]["Close"], 1),
                                  Frac(data.rows[k - 1]["Close"], 1)), One)

\* a series of MaxSeries bars with differing closes in the last window
C17_Witness ==
    /\ Enhanced
    /\ len(frame) = MaxSeries
    /\ frame.rows[19]["SMA_20"] = NaN
    /\ frame.rows[20]["SMA_20"] = 20 * Level
    /\ frame.rows[MaxSeries]["SMA_20"] > 20 * Level
    /\ data.rows[MaxSeries]["Close"] # data.rows[MaxSeries - 1]["Close"]

\* a series too short for the window: no sma20, price changes from the second bar
C17_WitnessShort ==
    /\ Enhanced
    /\ len(frame) = ShortSeries
    /\ \A k \in 1..ShortSeries : frame.rows[k]["SMA_20"] = NaN
    /\ frame.rows[1]["Price_Change_Pct"] = NaN
    /\ \A k \in 2..ShortSeries : frame.rows[k]["Price_Change_Pct"] > 0

\* the true range of row k as the specification states it: high - low on the
\* first row, else max(high - low, |high - prevClose|, |low - prevClose|)
TrueRange(d, k) ==
    LET high == d.rows[k]["High"]
        low == d.rows[k]["Low"]
    IN  IF k = 1 THEN high - low
        ELSE LET prev_close == d.rows[k - 1]["Close"]
             IN  Max(high - low, Max(Abs(high - prev_close), Abs(low - prev_close)))

RECURSIVE TrueRangeSum(_, _, _)
TrueRangeSum(d, lo, hi) ==
    IF lo > hi THEN 0 ELSE TrueRange(d, lo) + TrueRangeSum(d, lo + 1, hi)

\* C18: the true range of bar 0 is high - low, that of bar t >= 1 is
\* max(high - low, |high - prevClose|, |low - prevClose|), and atr[t] is
\* defined iff t >= 13 (row k = t + 1 >= 14), where it is the mean of the 14
\* true ranges ending at t
C18_AtrWindow ==
    (Enhanced /\ data.columns = PriceColumns) =>
        \A k \in 1..len(frame) :
            /\ (frame.rows[k]["ATR"] # NaN) = (k >= 14)
            /\ k >= 14 =>
                  Val(frame.rows[k]["ATR"], "ATR") = Frac(TrueRangeSum(data, k - 13, k), 14)

\* C18, what the engine computes: the true range of bar 0 has no value (NaN
\* from shift(1) passes through np.maximum), so atr[t] is defined iff t >= 14,
\* where it is the mean of the 14 true ranges ending at t
C18_AtrAsComputed ==
    (Enhanced /\ data.columns = PriceColumns) =>
        \A k \in 1..len(frame) :
            /\ (frame.rows[k]["ATR"] # NaN) = (k >= 15)
            /\ k >= 15 =>
                  Val(frame.rows[k]["ATR"], "ATR") = Frac(TrueRangeSum(data, k - 13, k), 14)

\* a series of 20 or more bars: no ATR on the 14th bar, an ATR on the 15th
C18_WitnessFourteenthBar ==
    /\ Enhanced
    /\ data.columns = PriceColumns
    /\ len(frame) >= 20
    /\ frame.rows[14]["ATR"] = NaN
    /\ frame.rows[15]["ATR"] # NaN

\* C19: obv[0] = 0 and for every t >= 1, obv[t] - obv[t-1] is +volume[t] if
\* close[t] > close[t-1], -volume[t] if close[t] < close[t-1], and 0 if the
\* closes are equal
C19_ObvRunningSum ==
    (Enhanced /\ data.columns = PriceColumns) =>
        \A k \in 1..len(frame) :
            IF k = 1 THEN frame.rows[1]["OBV"] = 0
            ELSE frame.rows[k]["OBV"] - frame.rows[k - 1]["OBV"] =
                    IF data.rows[k]["Close"] > data.rows[k - 1]["Close"]
                    THEN data.rows[k]["Volume"]
                    ELSE IF data.rows[k]["Close"] < data.rows[k - 1]["Close"]
                         THEN 0 - data.rows[k]["Volume"]
                         ELSE 0

\* a series whose last bars close up, down and unchanged, with a negative OBV
C19_Witness ==
    /\ Enhanced
    /\ data.columns = PriceColumns
    /\ len(data) = MaxSeries
    /\ \E i, j, k \in (MaxSeries - LOOKBACK + 1)..MaxSeries :
          /\ data.rows[i]["Close"] > data.rows[i - 1]["Close"]
          /\ data.rows[j]["Close"] < data.rows[j - 1]["Close"]
          /\ data.rows[k]["Close"] = data.rows[k - 1]["Close"]
    /\ frame.rows[MaxSeries]["OBV"] < 0

\* C20: for every series whose bars have high >= low and every bar t >= 19
\* (row k = t + 1 >= 20), resistance[t] is the maximum high and support[t] the
\* minimum low of bars t-19..t, both are defined and resistance[t] >=
\* support[t]; for t < 19 both are undefined
C20_ResistanceSupport ==
    (/\ Enhanced
     /\ data.columns = PriceColumns
     /\ \A k \in 1..len(data) : data.rows[k]["High"] >= data.rows[k]["Low"]) =>
        \A k \in 1..len(frame) :
            LET resistance == frame.rows[k]["Resistance"]
                support == frame.rows[k]["Support"]
            IN  IF k >= 20
                THEN /\ resistance # NaN
                     /\ support # NaN
                     /\ \E j \in (k - 19)..k : resistance = data.rows[j]["High"]
                     /\ \A j \in (k - 19)..k : resistance >= data.rows[j]["High"]
                     /\ \E j \in (k - 19)..k : support = data.rows[j]["Low"]
                     /\ \A j \in (k - 19)..k : support <= data.rows[j]["Low"]
                     /\ resistance >= support
                ELSE resistance = NaN /\ support = NaN

\* a series of MaxSeries bars whose latest high is the resistance, above the
\* highs before it, and whose support is the low of the leading bars
C20_Witness ==
    /\ Enhanced
    /\ data.columns = PriceColumns
    /\ len(data) = MaxSeries
    /\ frame.rows[MIN_BARS - 2]["Resistance"] = NaN
    /\ frame.rows[MaxSeries]["Resistance"] = data.rows[MaxSeries]["High"]
    /\ frame.rows[MaxSeries]["Resistance"] > frame.rows[MaxSeries - 1]["Resistance"]
    /\ frame.rows[MaxSeries]["Support"] = Level - 1

-----------------------------------------------------------------------------
(* The quality rules as the specification words them, on the latest bar of *)
(* a frame d and the signals s; a field the frame lacks is undefined       *)

StrongVolume(d) ==
    FGt(Field(d, 1, "Volume"), FMul(Frac(3, 2), Field(d, 1, "Volume_MA_20")))

GoodVolume(d) ==
    ~StrongVolume(d) /\ FGt(Field(d, 1, "Volume"), Field(d, 1, "Volume_MA_20"))

Uptrend(d) == FGt(Field(d, 1, "SMA_20"), Field(d, 1, "SMA_50"))

\* sma20 > 0 and priceVolatility / sma20 < 0.05, that is priceVolatility^2 <
\* (0.05 x sma20)^2: both sides of the first inequality are not negative
LowVolatility(d) ==
    /\ FGt(Field(d, 1, "SMA_20"), Zero)
    /\ FLt(Field(d, 1, "Price_Volatility"),
           FMul(FMul(Frac(1, 20), Field(d, 1, "SMA_20")),
                FMul(Frac(1, 20), Field(d, 1, "SMA_20"))))

StrongBreakout(s) == s.breakout.signal /\ FGt(s.breakout.strength, Frac(3, 100))

\* the sum of the applicable increments, in hundredths
Increments(s, d) ==
    (IF StrongVolume(d) THEN 30 ELSE IF GoodVolume(d) THEN 15 ELSE 0)
        + (IF Uptrend(d) THEN 20 ELSE 0)
        + (IF LowVolatility(d) THEN 20 ELSE 0)
        + (IF StrongBreakout(s) THEN 30 ELSE 0)

\* the names of the increments applied
FactorNames(s, d) ==
    (IF StrongVolume(d) THEN {"strong_volume"} ELSE {})
        \cup (IF GoodVolume(d) THEN {"good_volume"} ELSE {})
        \cup (IF Uptrend(d) THEN {"uptrend"} ELSE {})
        \cup (IF LowVolatility(d) THEN {"low_volatility"} ELSE {})
        \cup (IF StrongBreakout(s) THEN {"strong_breakout"} ELSE {})

\* the label of a score in hundredths
Label(hundredths) ==
    IF hundredths >= 80 THEN "excellent"
    ELSE IF hundredths >= 60 THEN "good"
    ELSE IF hundredths >= 40 THEN "fair"
    ELSE "poor"

\* the result q scores the scenario: the confidence is the sum of the
\* applicable increments and lies in [0, 1], the factors are the increments
\* applied, each named once, and the label is the one of the score
Scores(q, s, d) ==
    /\ DOMAIN q = {"quality", "confidence", "factors", "score"}
    /\ q.confidence = Frac(Increments(s, d), 100)
    /\ q.score = q.confidence
    /\ FGe(q.confidence, Zero) /\ FLe(q.confidence, One)
    /\ {q.factors[i] : i \in 1..Len(q.factors)} = FactorNames(s, d)
    /\ Len(q.factors) = Cardinality(FactorNames(s, d))
    /\ q.quality = Label(Increments(s, d))

\* analyze_signal_quality has returned the quality of frame and signals
Analyzed == pc \in {"analyzed", "improved"}

C23_QualityMonotone ==
    (/\ pc = "improved"
     /\ QualityColumns \subseteq frame.columns
     /\ FactorNames(signals, frame) = {})
        => /\ FGe(again.quality.confidence, quality.confidence)
           /\ again.added = {"volume", "uptrend", "breakout"}
                 => FGt(again.quality.confidence, quality.confidence)

\* a scenario with no factor (volume at the average, level trend, volatility
\* of 5%, weak breakout) to which the three factors are added: the confidence
\* goes from 0 to 0.8 or more
C23_Witness ==
    /\ pc = "improved"
    /\ QualityColumns \subseteq frame.columns
    /\ FactorNames(signals, frame) = {}
    /\ quality.confidence = Zero
    /\ signals.breakout.signal
    /\ again.added = {"volume", "uptrend", "breakout"}
    /\ StrongVolume(again.frame) /\ Uptrend(again.frame) /\ StrongBreakout(again.signals)
    /\ Field(again.frame, 1, "Price_Volatility") = Field(frame, 1, "Price_Volatility")
    /\ FGe(again.quality.confidence, Frac(8, 10))

\* a scenario with no factor to which the uptrend alone is added
C23_WitnessOne ==
    /\ pc = "improved"
    /\ QualityColumns \subseteq frame.columns
    /\ FactorNames(signals, frame) = {}
    /\ again.added = {"uptrend"}
    /\ again.quality.factors = <<"uptrend">>
    /\ again.quality.confidence = Frac(2, 10)

\* the factors awarded, none when the analysis recovered from a fault
Awarded(q) ==
    IF "factors" \in DOMAIN q THEN {q.factors[i] : i \in 1..Len(q.factors)} ELSE {}

\* C30: for every non-empty frame and every signals value, the label is
\* excellent only when the strong_breakout factor applies (breakout signalled
\* with strength > 0.03); without it the confidence is at most 0.70 and the
\* label is good at most; strong_volume and good_volume are never both awarded
C30_ExcellentNeedsStrongBreakout ==
    (Analyzed /\ len(frame) > 0) =>
        /\ quality.quality = "excellent" => StrongBreakout(signals)
        /\ ~StrongBreakout(signals) =>
              /\ FLe(quality.confidence, Frac(70, 100))
              /\ quality.quality \in {"good", "fair", "poor", "unknown"}
        /\ ~({"strong_volume", "good_volume"} \subseteq Awarded(quality))

\* every factor but the strong breakout (the breakout has a strength of
\* exactly 0.03): the confidence is 0.70 and the label good
C30_Witness ==
    /\ pc = "analyzed"
    /\ len(frame) > 0
    /\ signals.breakout.signal
    /\ signals.breakout.strength = Frac(3, 100)
    /\ "factors" \in DOMAIN quality
    /\ quality.factors = <<"strong_volume", "uptrend", "low_volatility">>
    /\ quality.confidence = Frac(70, 100)
    /\ quality.quality = "good"

\* a strong breakout on strong volume in an uptrend: excellent
C30_WitnessExcellent ==
    /\ pc = "analyzed"
    /\ StrongBreakout(signals)
    /\ quality.quality = "excellent"
    /\ "good_volume" \notin Awarded(quality)

-----------------------------------------------------------------------------
(* Frames produced by calculate_all_indicators *)

\* every bar of the series has close <= high
CloseWithinHigh(d) ==
    /\ {"Close", "High"} \subseteq d.columns
    /\ \A k \in 1..len(d) : d.rows[k]["Close"] <= d.rows[k]["High"]

\* detect_all_signals has run on the frame of the series
Screened == pc \in {"detected", "analyzed", "repeated"}

C27_WitnessNewHigh ==
    /\ pc = "detected"
    /\ CloseWithinHigh(data)
    /\ signals.breakout.signal_type = RESISTANCE_BREAKOUT
    /\ iloc(frame, 1)["Close"] = iloc(frame, 1)["Resistance"]
    /\ iloc(frame, 1)["Close"] > iloc(frame, 2)["Resistance"]

C28_WitnessUnconfirmed ==
    /\ pc = "detected"
    /\ CloseWithinHigh(data)
    /\ len(frame) >= MIN_BARS
    /\ AboveBand(config, frame, 1)
    /\ ~VolumeConfirmed(frame)
    /\ ~signals.breakout.signal

\* C29: on a frame produced by calculate_all_indicators with fewer than 50
\* bars the latest sma50 is undefined, MaBreakout is never reported and
\* analyze_signal_quality never awards the uptrend factor; with 21..49 bars the
\* only breakout type reported is ResistanceBreakout
C29_NoMaBreakoutUnderFiftyBars ==
    (Screened /\ len(frame) < WINDOW_50) =>
        /\ len(frame) > 0 => iloc(frame, 1)["SMA_50"] = NaN
        /\ signals.breakout.signal_type # MA_BREAKOUT
        /\ pc = "analyzed" => "uptrend" \notin Awarded(quality)
        /\ signals.breakout.signal =>
              /\ len(frame) >= MIN_BARS
              /\ signals.breakout.signal_type = RESISTANCE_BREAKOUT

\* a frame of 21 bars or more and fewer than 50 on which the close crosses
\* above sma20 and the resistance rule does not match: no breakout, and the
\* quality analysis awards factors, the uptrend not among them
C29_Witness ==
    /\ pc = "analyzed"
    /\ len(frame) >= MIN_BARS /\ len(frame) < WINDOW_50
    /\ MaCross(frame)
    /\ iloc(frame, 1)["SMA_20"] # NaN
    /\ ~signals.breakout.signal
    /\ "low_volatility" \in Awarded(quality)
    /\ "uptrend" \notin Awarded(quality)

\* a ResistanceBreakout on such a frame
C29_WitnessResistance ==
    /\ pc = "analyzed"
    /\ len(frame) >= MIN_BARS /\ len(frame) < WINDOW_50
    /\ MaCross(frame)
    /\ signals.breakout.signal_type = RESISTANCE_BREAKOUT

-----------------------------------------------------------------------------
(* Batch screening *)

\* the symbol's screening succeeds: data is fetched, of 21 bars or more, the
\* indicators are computed and the result is built
Succeeds(symbol) ==
    LET response == gateway[symbol][1]
    IN  /\ response.kind = "data"
        /\ len(response.data) >= 21
        /\ {"Close", "Volume", "High", "Low"} \subseteq response.data.columns
        /\ iloc(response.data, 1)["Volume"] # NaN

\* C24: per-symbol failure isolation: screen_multiple_stocks processes every
\* symbol, never raises, and returns exactly one entry for each symbol whose
\* screening succeeded, in input order; results plus failures are the number
\* of input symbols; when every fetch fails total_screened = 0 and
\* signal_count = 0
C24_FailureIsolation ==
    pc = "screened" =>
        /\ results.kind = "ScreeningResults"
        /\ [i \in 1..Len(results.results) |-> results.results[i].symbol]
              = SelectSeq(symbols, Succeeds)
        /\ results.successful_screens = total_screened(results)
        /\ total_screened(results) + results.failed_screens = Len(symbols)
        /\ (\A i \in 1..Len(symbols) : gateway[symbols[i]][1].kind # "data")
              => total_screened(results) = 0 /\ stocks_signal_count(results) = 0

\* three symbols of which the second fails (the fetch raises, or gives no
\* data, too few bars, or a series on which the computation raises) and the
\* others are screened
C24_Witness ==
    /\ pc = "screened"
    /\ symbols = <<"A", "B", "C">>
    /\ Succeeds("A") /\ ~Succeeds("B") /\ Succeeds("C")
    /\ gateway["B"][1].kind = "data"
    /\ len(gateway["B"][1].data) >= 21
    /\ Len(results.results) = 2
    /\ results.results[1].symbol = "A" /\ results.results[2].symbol = "C"
    /\ results.failed_screens = 1

\* every fetch fails
C24_WitnessAllFail ==
    /\ pc = "screened"
    /\ symbols = <<"C", "A", "A">>
    /\ gateway["A"][1].kind = "raises" /\ gateway["C"][1].kind = "none"
    /\ results.results = <<>>
    /\ results.failed_screens = 3

\* C25: configuration impact: on the same symbols and data, the liberal
\* configuration (volume_spike_threshold 1.5, breakout_threshold 0.01) finds
\* at least as many stocks with signals as the conservative one (4.0, 0.05)
C25_LiberalFindsAtLeastAsMany ==
    pc = "configured" =>
        stocks_signal_count(again.liberal) >= stocks_signal_count(again.conservative)

\* the result reports a volume spike
HasVolumeSpike(result) == result.signals.volume.signal

\* the result reports a breakout
HasBreakout(result) == result.signals.breakout.signal

\* C25, what the two thresholds do: the lower volume_spike_threshold finds at
\* least the volume spikes of the higher one, and the higher
\* breakout_threshold, which widens the band under the resistance, finds at
\* least the breakouts of the lower one on these series of fewer than 50 bars
C25_ThresholdsPullApart ==
    pc = "configured" =>
        /\ Len(SelectSeq(again.liberal.results, HasVolumeSpike))
              >= Len(SelectSeq(again.conservative.results, HasVolumeSpike))
        /\ (\A i \in 1..Len(symbols) :
               gateway[symbols[i]][1].kind = "data"
                  => len(gateway[symbols[i]][1].data) < WINDOW_50)
              => Len(SelectSeq(again.conservative.results, HasBreakout))
                    >= Len(SelectSeq(again.liberal.results, HasBreakout))

\* a symbol whose latest close is 4% under its resistance on 1.3 times the
\* average volume is screened with two quiet symbols: the conservative
\* configuration finds its breakout, the liberal one finds nothing
C25_WitnessConservativeFindsMore ==
    /\ pc = "configured"
    /\ symbols = <<"A", "B", "C">>
    /\ gateway["A"] = Steady(FetchData(InBandSeries))
    /\ total_screened(again.liberal) = 2 /\ total_screened(again.conservative) = 2
    /\ stocks_signal_count(again.liberal) = 0
    /\ stocks_signal_count(again.conservative) = 1
    /\ again.conservative.results[1].signals.breakout.signal_type = RESISTANCE_BREAKOUT

\* a symbol with 2.7 times the average volume: the liberal configuration
\* finds more
C25_WitnessLiberalFindsMore ==
    /\ pc = "configured"
    /\ stocks_signal_count(again.liberal) > stocks_signal_count(again.conservative)

\* the ranking key of a result: (signal_count, breakout strength if a breakout
\* is signalled else 0, volume ratio if a spike is signalled else 0)
RankKey(x) ==
    <<(IF x.signals.breakout.signal THEN 1 ELSE 0) + (IF x.signals.volume.signal THEN 1 ELSE 0),
      IF x.signals.breakout.signal THEN x.signals.breakout.strength ELSE Zero,
      IF x.signals.volume.signal THEN x.signals.volume.volume_ratio ELSE Zero>>

\* x ranks strictly above y
RanksAbove(x, y) ==
    LET a == RankKey(x)
        b == RankKey(y)
    IN  \/ a[1] > b[1]
        \/ a[1] = b[1] /\ FGt(a[2], b[2])
        \/ a[1] = b[1] /\ a[2] = b[2] /\ FGt(a[3], b[3])

\* the same screening result, with or without its quality
SameResult(x, y) == x.symbol = y.symbol /\ x.signals = y.signals

Occurrences(xs, x) == Cardinality({i \in 1..Len(xs) : SameResult(xs[i], x)})

\* get_top_signals or get_top_opportunities has returned
Ranked == pc \in {"ranked", "opportunities"}

\* C26: for every result set and limit >= 0, get_top_signals(limit) and
\* get_top_opportunities return at most limit results, each with at least one
\* signal, ordered non-increasingly by the key (signal_count, breakout
\* strength if signalled else 0, volume ratio if spike else 0), and no result
\* with a signal that is left out ranks strictly above a returned one
C26_TopSignals ==
    (Ranked /\ top.limit >= 0) =>
        /\ Len(top.list) <= top.limit
        /\ \A i \in 1..Len(top.list) :
              /\ top.list[i].signals.breakout.signal \/ top.list[i].signals.volume.signal
              /\ Occurrences(top.list, top.list[i]) <= Occurrences(results.results, top.list[i])
        /\ \A i, j \in 1..Len(top.list) : i < j => ~RanksAbove(top.list[j], top.list[i])
        /\ \A k \in 1..Len(results.results) :
              LET x == results.results[k]
              IN  (/\ x.signals.breakout.signal \/ x.signals.volume.signal
                   /\ Occurrences(top.list, x) < Occurrences(results.results, x))
                      => \A i \in 1..Len(top.list) : ~RanksAbove(x, top.list[i])

\* three results with signals and limit 2: the MA breakout with a spike (2
\* signals, strength 0.05) comes before the resistance breakout with a larger
\* spike (2 signals, strength 0), and the MA breakout without a spike (1
\* signal, strength 0.1) is left out
C26_Witness ==
    /\ pc = "ranked"
    /\ symbols = <<"A", "B", "C">>
    /\ top.limit = 2
    /\ Len(results.results) = 3
    /\ Len(top.list) = 2
    /\ top.list[1].symbol = "B" /\ top.list[2].symbol = "A"
    /\ top.list[1].signals.breakout.signal_type = MA_BREAKOUT
    /\ top.list[2].signals.breakout.signal_type = RESISTANCE_BREAKOUT
    /\ FGt(top.list[2].signals.volume.volume_ratio, top.list[1].signals.volume.volume_ratio)
    /\ results.results[3].signals.breakout.signal_type = MA_BREAKOUT
    /\ ~results.results[3].signals.volume.signal

\* get_top_opportunities returns the two top results with their quality
C26_WitnessOpportunities ==
    /\ pc = "opportunities"
    /\ top.limit = 2
    /\ Len(top.list) = 2
    /\ RanksAbove(top.list[1], top.list[2])
    /\ "quality" \in DOMAIN top.list[1]
    /\ top.list[1].quality.quality \in {"good", "excellent"}

\* get_top_opportunities returns [] when the second fetch of a symbol raises
C26_WitnessOpportunitiesRaise ==
    /\ pc = "opportunities"
    /\ top.limit = 2
    /\ stocks_signal_count(results) >= 2
    /\ top.list = <<>>

\* a negative limit cuts from the end: more than `limit` results
C26_WitnessNegativeLimit ==
    /\ pc = "ranked"
    /\ top.limit < 0
    /\ Len(top.list) = 2

====
